---------------------------- MODULE Spec2Model ----------------------------
(***************************************************************************)
(* A model of the minest DNS resolver and dialer.                          *)
(*                                                                         *)
(*   - the response model (validation, RCODE mapping, valid answers),      *)
(*   - Resolver: lookup over an ordered list of transports, LookupA,       *)
(*     LookupAAAA, LookupCNAME and the concurrent LookupHost,              *)
(*   - Dialer: DialContext with the IP-literal short circuit.              *)
(*                                                                         *)
(* Strings that the code inspects byte by byte (domain names) are          *)
(* sequences of byte values; strings that the code only passes around      *)
(* are TLA+ strings.                                                       *)
(***************************************************************************)
EXTENDS Integers, Sequences, FiniteSets, TLC

(***************************************************************************)
(* Bounds of the model.                                                    *)
(***************************************************************************)
\* The largest number of transports a Resolver is constructed with.
MaxTransports == 2

\* The largest number of addresses the dialer's resolver returns.
MaxAddrs == 2

(***************************************************************************)
(* Protocol constants (github.com/miekg/dns) the code refers to.           *)
(***************************************************************************)
RcodeSuccess == 0
RcodeServerFailure == 2
RcodeNameError == 3
RcodeRefused == 5
TypeA == 1
TypeCNAME == 5
TypeAAAA == 28
ClassINET == 1
ClassCHAOS == 3

(***************************************************************************)
(* Errors.  An error value is a record: the nil error, a leaf (a sentinel  *)
(* or an opaque I/O error, told apart by name) or the result of            *)
(* errors.Join, which keeps the joined errors in order.                    *)
(***************************************************************************)
NilErr == [kind |-> "nil", name |-> "", errs |-> <<>>]

Leaf(n) == [kind |-> "leaf", name |-> n, errs |-> <<>>]

ErrInvalidQuery == Leaf("invalid query")
ErrInvalidResponse == Leaf("invalid DNS response")
ErrNoName == Leaf("no such host")
ErrServerMisbehaving == Leaf("server misbehaving")
\* In the code this error has the text of ErrServerMisbehaving and is a
\* different error value; the name keeps the two apart.
ErrServerTemporarilyMisbehaving == Leaf("server misbehaving (temporary)")
ErrNoData == Leaf("no answer from DNS server")
ErrNoTransport == Leaf("no configured transport")
ErrCanceled == Leaf("context canceled")
ErrDeadlineExceeded == Leaf("context deadline exceeded")
\* An opaque transport-level failure (dial, write, read).
ErrIO == Leaf("i/o failure")

\* errors.Join: drops nil errors, returns nil when nothing is left,
\* otherwise one error wrapping the remaining ones in order.
Join(errv) ==
    LET nn == SelectSeq(errv, LAMBDA e : e.kind # "nil")
    IN  IF nn = <<>> THEN NilErr
        ELSE [kind |-> "join", name |-> "", errs |-> nn]

\* errors.Is: the error is the target, or it wraps (possibly through
\* several joins) an error that is the target.
RECURSIVE ErrorsIs(_, _)
ErrorsIs(err, target) ==
    \/ err = target
    \/ /\ err.kind = "join"
       /\ \E i \in 1..Len(err.errs) : ErrorsIs(err.errs[i], target)

(***************************************************************************)
(* Response model.  A message is                                           *)
(*   [Response, Id, Question, Rcode, Authoritative, RecursionAvailable,    *)
(*    Answer]                                                              *)
(* a question is [Name, Qtype, Qclass] and a resource record is            *)
(*   [Name, Class, Rrtype, Target, Addr]                                   *)
(* where Rrtype also stands for the record's concrete Go type, Target is   *)
(* the CNAME target (empty otherwise) and Addr the address of an A or      *)
(* AAAA record (empty otherwise).                                          *)
(***************************************************************************)
ToLowerASCII(a) == IF 65 <= a /\ a <= 90 THEN a + 32 ELSE a

responseEqualASCIIName(x, y) ==
    /\ Len(x) = Len(y)
    /\ \A i \in 1..Len(x) : ToLowerASCII(x[i]) = ToLowerASCII(y[i])

responseValidateQueryRespQueryFirst(query, resp) ==
    IF Len(query.Question) # 1 THEN ErrInvalidQuery
    ELSE IF ~resp.Response THEN ErrInvalidResponse
    ELSE IF resp.Id # query.Id THEN ErrInvalidResponse
    ELSE IF Len(resp.Question) # 1 THEN ErrInvalidResponse
    ELSE LET resp0 == resp.Question[1]
             query0 == query.Question[1]
         IN  IF ~responseEqualASCIIName(resp0.Name, query0.Name)
                THEN ErrInvalidResponse
             ELSE IF resp0.Qclass # query0.Qclass THEN ErrInvalidResponse
             ELSE IF resp0.Qtype # query0.Qtype THEN ErrInvalidResponse
             ELSE NilErr

responseValidateQueryResp(query, resp) ==
    IF ~resp.Response THEN ErrInvalidResponse
    ELSE IF resp.Id # query.Id THEN ErrInvalidResponse
    ELSE IF Len(query.Question) # 1 THEN ErrInvalidQuery
    ELSE IF Len(resp.Question) # 1 THEN ErrInvalidResponse
    ELSE LET resp0 == resp.Question[1]
             query0 == query.Question[1]
         IN  IF ~responseEqualASCIIName(resp0.Name, query0.Name)
                THEN ErrInvalidResponse
             ELSE IF resp0.Qclass # query0.Qclass THEN ErrInvalidResponse
             ELSE IF resp0.Qtype # query0.Qtype THEN ErrInvalidResponse
             ELSE NilErr

responseRcodeToErrorNoLameReferral(resp) ==
    IF resp.Rcode = RcodeNameError THEN ErrNoName
    ELSE IF resp.Rcode # RcodeSuccess
         THEN IF resp.Rcode = RcodeServerFailure
                 THEN ErrServerTemporarilyMisbehaving
                 ELSE ErrServerMisbehaving
    ELSE NilErr

\* responseRcodeToError: the error a response's RCODE (and, for the lame
\* referral, its flags and answer count) maps to, nil for none.
responseRcodeToErrorNoNameError(resp) ==
    IF /\ resp.Rcode = RcodeSuccess
       /\ ~resp.Authoritative
       /\ ~resp.RecursionAvailable
       /\ Len(resp.Answer) = 0
         THEN ErrNoData
    ELSE IF resp.Rcode # RcodeSuccess
         THEN IF resp.Rcode = RcodeServerFailure
                 THEN ErrServerTemporarilyMisbehaving
                 ELSE ErrServerMisbehaving
    ELSE NilErr

responseRcodeToErrorNoTemporary(resp) ==
    IF resp.Rcode = RcodeNameError THEN ErrNoName
    ELSE IF /\ resp.Rcode = RcodeSuccess
            /\ ~resp.Authoritative
            /\ ~resp.RecursionAvailable
            /\ Len(resp.Answer) = 0
         THEN ErrNoData
    ELSE IF resp.Rcode # RcodeSuccess THEN ErrServerMisbehaving
    ELSE NilErr

responseRcodeToError(resp) ==
    IF resp.Rcode = RcodeNameError THEN ErrNoName
    ELSE IF /\ resp.Rcode = RcodeSuccess
            /\ ~resp.Authoritative
            /\ ~resp.RecursionAvailable
            /\ Len(resp.Answer) = 0
         THEN ErrNoData
    ELSE IF resp.Rcode # RcodeSuccess
         THEN IF resp.Rcode = RcodeServerFailure
                 THEN ErrServerTemporarilyMisbehaving
                 ELSE ErrServerMisbehaving
    ELSE NilErr

\* The first loop of responseGetValidAnswers: the state after walking the
\* first k answers is [validNames, currentName].
RECURSIVE responseCNAMEChain(_, _, _)
responseCNAMEChain(q0, answers, k) ==
    IF k = 0 THEN [validNames |-> {q0.Name}, currentName |-> q0.Name]
    ELSE LET prev == responseCNAMEChain(q0, answers, k - 1)
             answer == answers[k]
         IN  IF /\ answer.Rrtype = TypeCNAME
                /\ responseEqualASCIIName(prev.currentName, answer.Name)
                /\ answer.Class = q0.Qclass
             THEN [validNames |->
                       prev.validNames \cup {answer.Name, answer.Target},
                   currentName |-> answer.Target]
             ELSE prev

responseGetValidAnswersAnyClass(q0, resp) ==
    LET validNames ==
            responseCNAMEChain(q0, resp.Answer, Len(resp.Answer)).validNames
        valid == SelectSeq(resp.Answer,
                     LAMBDA answer : answer.Name \in validNames)
    IN  IF Len(valid) < 1 THEN [rrs |-> <<>>, err |-> ErrNoData]
        ELSE [rrs |-> valid, err |-> NilErr]

\* responseGetValidAnswers: [rrs, err].
responseGetValidAnswers(q0, resp) ==
    LET validNames ==
            responseCNAMEChain(q0, resp.Answer, Len(resp.Answer)).validNames
        valid == SelectSeq(resp.Answer,
                     LAMBDA answer : /\ answer.Name \in validNames
                                     /\ q0.Qclass = answer.Class)
    IN  IF Len(valid) < 1 THEN [rrs |-> <<>>, err |-> ErrNoData]
        ELSE [rrs |-> valid, err |-> NilErr]

NewResponseRcodeFirst(query, resp) ==
    LET e1 == responseValidateQueryResp(query, resp)
        e2 == responseRcodeToError(resp)
    IN  IF e2 # NilErr THEN [resp |-> [ok |-> FALSE, ValidRRs |-> <<>>],
                             err |-> e2]
        ELSE IF e1 # NilErr THEN [resp |-> [ok |-> FALSE, ValidRRs |-> <<>>],
                                  err |-> e1]
        ELSE LET va == responseGetValidAnswers(query.Question[1], resp)
             IN  IF va.err # NilErr
                    THEN [resp |-> [ok |-> FALSE, ValidRRs |-> <<>>],
                          err |-> va.err]
                    ELSE [resp |-> [ok |-> TRUE, ValidRRs |-> va.rrs],
                          err |-> NilErr]

NewResponseKeepsEmptyAnswers(query, resp) ==
    LET e1 == responseValidateQueryResp(query, resp)
        e2 == responseRcodeToError(resp)
    IN  IF e1 # NilErr THEN [resp |-> [ok |-> FALSE, ValidRRs |-> <<>>],
                             err |-> e1]
        ELSE IF e2 # NilErr THEN [resp |-> [ok |-> FALSE, ValidRRs |-> <<>>],
                                  err |-> e2]
        ELSE [resp |-> [ok |-> TRUE,
                        ValidRRs |->
                            responseGetValidAnswers(query.Question[1],
                                                    resp).rrs],
              err |-> NilErr]

\* A *Response is [ok, ValidRRs]; ok = FALSE is the nil pointer.
NilResponse == [ok |-> FALSE, ValidRRs |-> <<>>]

\* NewResponse: [resp, err].
NewResponse(query, resp) ==
    LET e1 == responseValidateQueryResp(query, resp)
        e2 == responseRcodeToError(resp)
    IN  IF e1 # NilErr THEN [resp |-> NilResponse, err |-> e1]
        ELSE IF e2 # NilErr THEN [resp |-> NilResponse, err |-> e2]
        ELSE LET va == responseGetValidAnswers(query.Question[1], resp)
             IN  IF va.err # NilErr
                    THEN [resp |-> NilResponse, err |-> va.err]
                    ELSE [resp |-> [ok |-> TRUE, ValidRRs |-> va.rrs],
                          err |-> NilErr]

\* The addresses of the records of one concrete type, in order.
RECURSIVE AddrsOfType(_, _)
AddrsOfType(rrs, t) ==
    IF rrs = <<>> THEN <<>>
    ELSE (IF Head(rrs).Rrtype = t THEN <<Head(rrs).Addr>> ELSE <<>>)
             \o AddrsOfType(Tail(rrs), t)

\* RecordsA: [val, err].
RecordsA(r) ==
    LET out == AddrsOfType(r.ValidRRs, TypeA)
    IN  IF Len(out) < 1 THEN [val |-> <<>>, err |-> ErrNoData]
        ELSE [val |-> out, err |-> NilErr]

\* RecordsAAAA: [val, err].
RecordsAAAA(r) ==
    LET out == AddrsOfType(r.ValidRRs, TypeAAAA)
    IN  IF Len(out) < 1 THEN [val |-> <<>>, err |-> ErrNoData]
        ELSE [val |-> out, err |-> NilErr]

\* RecordFirstCNAME: [val, err]; val is the target of the first CNAME.
RecordFirstCNAME(r) ==
    LET cn == SelectSeq(r.ValidRRs, LAMBDA rr : rr.Rrtype = TypeCNAME)
    IN  IF cn = <<>> THEN [val |-> <<>>, err |-> ErrNoData]
        ELSE [val |-> cn[1].Target, err |-> NilErr]

\* RecordsCNAME: [val, err]; val is the list of all CNAME targets.
RECURSIVE TargetsOfCNAME(_)
TargetsOfCNAME(rrs) ==
    IF rrs = <<>> THEN <<>>
    ELSE (IF Head(rrs).Rrtype = TypeCNAME THEN <<Head(rrs).Target>> ELSE <<>>)
             \o TargetsOfCNAME(Tail(rrs))

RecordsCNAME(r) ==
    LET out == TargetsOfCNAME(r.ValidRRs)
    IN  IF Len(out) < 1 THEN [val |-> <<>>, err |-> ErrNoData]
        ELSE [val |-> out, err |-> NilErr]

(***************************************************************************)
(* Resolver.                                                               *)
(*                                                                         *)
(* A transport is a stub known by its position in Resolver.Transports;     *)
(* what its Exchange returns is chosen by the environment: an I/O error,   *)
(* or the result of parsing one of the server replies below against the    *)
(* query message.                                                          *)
(***************************************************************************)
VARIABLES
    nTransports, \* len(r.Transports)
    ctxErr,      \* the caller's context: "nil", "Canceled"
    op,          \* the public method called, "none" before the call
    pc,          \* of the public method: "idle", "running", "done", "panic"
    task,        \* the sub-lookups LookupA, LookupAAAA, LookupCNAME
    ach,         \* LookupHost's channel for the A result (capacity 1)
    aaaach,      \* LookupHost's channel for the AAAA result (capacity 1)
    wg,          \* LookupHost's WaitGroup counter
    ret,         \* what the public method returned: [addrs, cname, err]
    entryCtx,    \* history: the caller's context when the method was called
    finished,    \* history: the sub-lookups in the order they returned
    timeout,     \* r.Timeout
    ctxDeadline  \* the deadline of the caller's context, NoDeadline for none

resolverVars ==
    <<nTransports, ctxErr, op, pc, task, ach, aaaach, wg, ret, entryCtx,
      finished, timeout, ctxDeadline>>

\* The Dialer's state (see the Dialer below).
VARIABLES
    dNetwork,    \* DialContext's network argument
    dAddress,    \* DialContext's address argument
    dpc,         \* "idle", "resolving", "dialing", "done", "panic"
    dPort,       \* the port SplitHostPort returned
    dAddrs,      \* the addresses lookupHost returned
    dIdx,        \* the position in dAddrs of the attempt in flight
    dErrv,       \* the errors of the failed attempts
    dRet,        \* what DialContext returned: [conn, err]
    dLookups,    \* history: the names given to the resolver's LookupHost
    dDials,      \* history: the calls of the underlying dialer
    dOuts,       \* history: what those calls returned
    dLookupOuts  \* history: what the resolver returned to DialContext

dialerVars ==
    <<dNetwork, dAddress, dpc, dPort, dAddrs, dIdx, dErrv, dRet, dLookups,
      dDials, dOuts, dLookupOuts>>

\* The state of one exchange of a transport (see the Transports below).
VARIABLES
    xKind,       \* the Exchange that runs (see XKinds)
    xCtx,        \* the caller's context: [deadline, err]
    xDctx,       \* the context Exchange derives once the dial succeeded
    xHeap,       \* the Query objects by pointer; 1 is the caller's Query
    xpc,         \* "idle", "dialing", "writing", "reading", "roundtrip",
                 \* "done"
    xConn,       \* the connection: [dialed, closed, deadline, stream,
                 \* sdeadline]
    xWatch,      \* the background goroutine: "none", "waiting", "done"
    xMsg,        \* the local queryMsg
    xWire,       \* history: the messages handed to Write (or to the POST)
    xLog,        \* history: the calls made on the connection and stream
    xIds,        \* history: the ids dns.Id() returned to this exchange
    xRespv,      \* ExchangeAndCollectDuplicates's respv
    xRet,        \* what Exchange returned: [val, err]
    xQuery0,     \* history: the caller's Query when Exchange was called
    xReads,      \* history: what the calls of Read returned: [dgram, err]
    xHooks,      \* DNSOverUDPTransport's ObserveRawQuery and
                 \* ObserveRawResponse: "nil", or what the hook does
    xHookLog,    \* history: the calls of the hooks: [hook, seen]
    xHTTP,       \* history: what the HTTP round trip returned and what the
                 \* HTTPS exchange did with it: [ok, status, ctype, bodyok,
                 \* read, unpacked]
    xWrites      \* history: whether each call of Write succeeded

exchangeVars ==
    <<xKind, xCtx, xDctx, xHeap, xpc, xConn, xWatch, xMsg, xWire, xLog,
      xIds, xRespv, xRet, xQuery0, xReads, xHooks, xHookLog, xHTTP,
      xWrites>>

\* The state of one application of the response model's functions.
VARIABLES
    rQuery,      \* the query message
    rResp,       \* the response message
    rpc,         \* "ready", "done"
    rOut         \* what the functions returned

responseVars == <<rQuery, rResp, rpc, rOut>>

\* The state of one application of a function of the wire format.
VARIABLES
    wIn,         \* the argument
    wpc,         \* "ready", "done", "panic"
    wOut         \* what the function returned

wireVars == <<wIn, wpc, wOut>>

nonResolverVars == <<dialerVars, exchangeVars, responseVars, wireVars>>

nonDialerVars == <<resolverVars, exchangeVars, responseVars, wireVars>>

nonExchangeVars == <<resolverVars, dialerVars, responseVars, wireVars>>

nonResponseVars == <<resolverVars, dialerVars, exchangeVars, wireVars>>

nonWireVars == <<resolverVars, dialerVars, exchangeVars, responseVars>>

vars == <<resolverVars, dialerVars, exchangeVars, responseVars, wireVars>>

\* The zero time.Time: no deadline.
NoDeadline == 0

\* Resolver.Timeout: the default, and two values that are not positive.
DefaultResolverTimeout == 10
Timeouts == {-1, 0, DefaultResolverTimeout}

\* The time at which the public method is called, and the deadlines of the
\* caller's context: none, one before and one after the resolver timeout.
lookupStart == 100
CallerDeadlines == {NoDeadline, 105, 200}

Tasks == {"A", "AAAA", "CNAME"}

Ops == {"LookupA", "LookupAAAA", "LookupCNAME", "LookupHost"}

\* The sub-lookups a public method runs.
TasksOf(o) ==
    CASE o = "LookupA" -> {"A"}
      [] o = "LookupAAAA" -> {"AAAA"}
      [] o = "LookupCNAME" -> {"CNAME"}
      [] o = "LookupHost" -> {"A", "AAAA"}
      [] OTHER -> {}

QType(g) ==
    CASE g = "A" -> TypeA
      [] g = "AAAA" -> TypeAAAA
      [] OTHER -> TypeCNAME

\* The domain looked up ("w", fully qualified by NewMsg) and the name its
\* CNAME points to ("e").
QName == <<119>>
TName == <<101>>

\* The message NewQuery(domain, qtype).NewMsg() builds, with the id the
\* transport chose.
QueryMsg(g) ==
    [Id |-> 1,
     Question |-> <<[Name |-> QName, Qtype |-> QType(g), Qclass |-> ClassINET]>>]

RRA(name, addr) ==
    [Name |-> name, Class |-> ClassINET, Rrtype |-> TypeA,
     Target |-> <<>>, Addr |-> addr]

RRAAAA(name, addr) ==
    [Name |-> name, Class |-> ClassINET, Rrtype |-> TypeAAAA,
     Target |-> <<>>, Addr |-> addr]

RRCNAME(name, target) ==
    [Name |-> name, Class |-> ClassINET, Rrtype |-> TypeCNAME,
     Target |-> target, Addr |-> ""]

\* A reply to query q (what dns.Msg.SetReply builds, plus the answers).
Reply(q, rcode, aa, ra, answers) ==
    [Response |-> TRUE, Id |-> q.Id, Question |-> q.Question,
     Rcode |-> rcode, Authoritative |-> aa, RecursionAvailable |-> ra,
     Answer |-> answers]

ReplyNXDOMAIN(q) == Reply(q, RcodeNameError, FALSE, TRUE, <<>>)
ReplyLame(q) == Reply(q, RcodeSuccess, FALSE, FALSE, <<>>)
ReplyOnlyA(q) == Reply(q, RcodeSuccess, FALSE, TRUE, <<RRA(QName, "192.0.2.1")>>)
ReplyOnlyAAAA(q) ==
    Reply(q, RcodeSuccess, FALSE, TRUE, <<RRAAAA(QName, "2001:db8::1")>>)
ReplyChain(q) ==
    Reply(q, RcodeSuccess, FALSE, TRUE,
          <<RRCNAME(QName, TName), RRA(TName, "192.0.2.2"),
            RRAAAA(TName, "2001:db8::2")>>)

\* The replies a server gives in this model.
ServerReplies(q) ==
    {ReplyNXDOMAIN(q), ReplyLame(q), ReplyOnlyA(q), ReplyOnlyAAAA(q),
     ReplyChain(q)}

\* What can happen to one Exchange of sub-lookup g: an I/O failure (msg is
\* then unused), or the arrival of a server reply.
ExchangeEvents(g) ==
    {[io |-> TRUE, msg |-> ReplyLame(QueryMsg(g))]}
        \cup {[io |-> FALSE, msg |-> m] : m \in ServerReplies(QueryMsg(g))}

\* What Exchange returns then: [resp, err].  The transports end with
\* NewResponse (ParseResponse) of the query message and the reply.
ExchangeResult(g, x) ==
    IF x.io THEN [resp |-> NilResponse, err |-> ErrIO]
    ELSE NewResponse(QueryMsg(g), x.msg)

\* context.WithTimeout(ctx, r.Timeout), the error of the derived context:
\* it is done from the start when the parent is, and when the timeout is
\* not positive.
WithTimeout(parent, d) ==
    IF parent # "nil" THEN parent
    ELSE IF d <= 0 THEN "DeadlineExceeded"
    ELSE "nil"

withTimeoutDeadlineKeepsParent(parentDeadline, now, d) == parentDeadline

\* The deadline of the derived context: the earlier of the parent's and of
\* now plus the timeout.
withTimeoutDeadline(parentDeadline, now, d) ==
    IF parentDeadline # NoDeadline /\ parentDeadline < now + d
       THEN parentDeadline
       ELSE now + d

\* The head of lookup's loop, entered with the next index i: start the
\* Exchange of transport i, or leave the loop and assemble the error.
lookupLoopOffByOne(n, ctxe, i, errv) ==
    IF i + 1 <= n /\ ctxe = "nil"
       THEN [k |-> "exchange", i |-> i + 1, err |-> NilErr]
    ELSE IF Len(errv) >= 1
       THEN [k |-> "return", i |-> i, err |-> Join(errv)]
    ELSE [k |-> "panic", i |-> i, err |-> NilErr]

lookupLoop(n, ctxe, i, errv) ==
    IF i <= n /\ ctxe = "nil"
       THEN [k |-> "exchange", i |-> i, err |-> NilErr]
    ELSE IF Len(errv) >= 1
       THEN [k |-> "return", i |-> i, err |-> Join(errv)]
    ELSE [k |-> "panic", i |-> i, err |-> NilErr]

\* LookupA after lookup returned resp with no error: [val, err, panic].
LookupAResult(resp) == RecordsA(resp) @@ [panic |-> FALSE]

\* LookupAAAA after lookup returned resp with no error.
LookupAAAAResult(resp) == RecordsAAAA(resp) @@ [panic |-> FALSE]

\* LookupCNAME after lookup returned resp with no error: the error of
\* RecordsCNAME if any, else the assertion, else the first target.
LookupCNAMEResultNoErrCheck(resp) ==
    LET c == RecordsCNAME(resp)
    IN  IF ~(Len(c.val) > 0)
           THEN [val |-> <<>>, err |-> NilErr, panic |-> TRUE]
        ELSE [val |-> c.val[1], err |-> NilErr, panic |-> FALSE]

LookupCNAMEResult(resp) ==
    LET c == RecordsCNAME(resp)
    IN  IF c.err # NilErr
           THEN [val |-> <<>>, err |-> c.err, panic |-> FALSE]
        ELSE IF ~(Len(c.val) > 0)
           THEN [val |-> <<>>, err |-> NilErr, panic |-> TRUE]
        ELSE [val |-> c.val[1], err |-> NilErr, panic |-> FALSE]

Project(g, resp) ==
    IF g = "A" THEN LookupAResult(resp)
    ELSE IF g = "AAAA" THEN LookupAAAAResult(resp)
    ELSE LookupCNAMEResult(resp)

IdleTask ==
    [pc |-> "idle", i |-> 0, errv |-> <<>>, ctx |-> "nil",
     deadline |-> NoDeadline, calls |-> <<>>, ctxs |-> <<>>, outs |-> <<>>,
     val |-> <<>>, err |-> NilErr]

NoRet == [addrs |-> <<>>, cname |-> <<>>, err |-> NilErr]

RetOf(g, val, err) ==
    IF g = "CNAME" THEN [addrs |-> <<>>, cname |-> val, err |-> err]
    ELSE [addrs |-> val, cname |-> <<>>, err |-> err]

InitResolver ==
    /\ nTransports \in 0..MaxTransports
    /\ ctxErr \in {"nil", "Canceled"}
    /\ timeout \in Timeouts
    /\ ctxDeadline \in CallerDeadlines
    /\ op = "none"
    /\ pc = "idle"
    /\ task = [g \in Tasks |-> IdleTask]
    /\ ach = <<>>
    /\ aaaach = <<>>
    /\ wg = 0
    /\ ret = NoRet
    /\ entryCtx = ctxErr
    /\ finished = <<>>
    \* the dialer is not used
    /\ dNetwork = "tcp"
    /\ dAddress = <<>>
    /\ dpc = "off"
    /\ dPort = <<>>
    /\ dAddrs = <<>>
    /\ dIdx = 0
    /\ dErrv = <<>>
    /\ dRet = [conn |-> [ok |-> FALSE, network |-> "", address |-> <<>>],
               err |-> NilErr]
    /\ dLookups = <<>>
    /\ dDials = <<>>
    /\ dOuts = <<>>
    /\ dLookupOuts = <<>>
    \* no exchange runs, the response functions are not applied
    /\ xKind = "none"
    /\ xCtx = [deadline |-> 0, err |-> "nil"]
    /\ xDctx = [deadline |-> 0, err |-> "nil"]
    /\ xHeap = <<>>
    /\ xpc = "off"
    /\ xConn = [dialed |-> FALSE, closed |-> FALSE, deadline |-> 0,
                stream |-> FALSE, sdeadline |-> 0]
    /\ xWatch = "none"
    /\ xMsg = <<>>
    /\ xWire = <<>>
    /\ xLog = <<>>
    /\ xIds = <<>>
    /\ xRespv = <<>>
    /\ xRet = [val |-> NilResponse, err |-> NilErr]
    /\ xQuery0 = <<>>
    /\ xReads = <<>>
    /\ xHooks = [query |-> "nil", response |-> "nil"]
    /\ xHookLog = <<>>
    /\ xHTTP = <<>>
    /\ xWrites = <<>>
    /\ rQuery = <<>>
    /\ rResp = <<>>
    /\ rpc = "off"
    /\ rOut = <<>>
    /\ wIn = <<>>
    /\ wOut = <<>>
    /\ wpc = "off"

\* The caller invokes one of the public methods.  LookupHost starts its two
\* goroutines; the other methods run their lookup on the caller's goroutine.
Call(o) ==
    /\ UNCHANGED nonResolverVars
    /\ pc = "idle"
    /\ op' = o
    /\ pc' = "running"
    /\ task' = [g \in Tasks |->
                   IF g \in TasksOf(o) THEN [IdleTask EXCEPT !.pc = "start"]
                   ELSE IdleTask]
    /\ wg' = IF o = "LookupHost" THEN 2 ELSE 0
    /\ entryCtx' = ctxErr
    /\ UNCHANGED <<nTransports, timeout, ctxDeadline, ctxErr, ach, aaaach,
                   ret, finished>>

hostChanShared(g) == "ach"

\* The channel on which LookupHost's goroutine for sub-lookup g sends.
hostChan(g) == IF g = "A" THEN "ach" ELSE "aaaach"

\* Sub-lookup g returns (val, err) to its caller: the public method itself,
\* or LookupHost's goroutine, which sends it on its channel and is done.
Return(g, t, val, err) ==
    /\ task' = [task EXCEPT ![g] = [t EXCEPT !.pc = "returned",
                                             !.val = val, !.err = err]]
    /\ finished' = Append(finished, g)
    /\ IF op = "LookupHost"
          THEN /\ ach' = IF hostChan(g) = "ach"
                            THEN Append(ach, [Value |-> val, Err |-> err])
                         ELSE ach
               /\ aaaach' = IF hostChan(g) = "aaaach"
                               THEN Append(aaaach, [Value |-> val, Err |-> err])
                            ELSE aaaach
               /\ wg' = wg - 1
               /\ UNCHANGED <<pc, ret>>
          ELSE /\ ret' = RetOf(g, val, err)
               /\ pc' = "done"
               /\ UNCHANGED <<ach, aaaach, wg>>

\* A failed assertion: the panic takes the whole program down.
Panic(g, t) ==
    /\ task' = [task EXCEPT ![g] = [t EXCEPT !.pc = "panicked"]]
    /\ pc' = "panic"
    /\ UNCHANGED <<ach, aaaach, wg, ret, finished>>

\* lookup, from the head of its loop (with the task record t updated so
\* far) up to the next call of Exchange, or up to the return of the Lookup
\* method that called it.
Continue(g, t) ==
    LET nx == lookupLoop(nTransports, t.ctx, t.i, t.errv)
    IN  CASE nx.k = "exchange" ->
                /\ task' = [task EXCEPT ![g] =
                               [t EXCEPT !.pc = "exchanging",
                                         !.calls = Append(t.calls, nx.i),
                                         !.ctxs = Append(t.ctxs,
                                             [deadline |-> t.deadline,
                                              err |-> t.ctx])]]
                /\ UNCHANGED <<pc, ach, aaaach, wg, ret, finished>>
          [] nx.k = "return" -> Return(g, t, <<>>, nx.err)
          [] OTHER -> Panic(g, t)

\* lookup's first check: there is no transport to try.
lookupNoTransportNever(n) == FALSE

lookupNoTransport(n) == n <= 0

\* Lookup{A,AAAA,CNAME} from its start to the first Exchange (or its end).
LookupStart(g) ==
    /\ UNCHANGED nonResolverVars
    /\ pc = "running"
    /\ task[g].pc = "start"
    /\ IF lookupNoTransport(nTransports)
          THEN Return(g, task[g], <<>>, ErrNoTransport)
          ELSE Continue(g, [task[g] EXCEPT
                               !.ctx = WithTimeout(ctxErr, timeout),
                               !.deadline =
                                   withTimeoutDeadline(ctxDeadline,
                                                       lookupStart, timeout),
                               !.i = 1])
    /\ UNCHANGED <<nTransports, timeout, ctxDeadline, ctxErr, op, entryCtx>>

\* What lookup does with the result r of the Exchange of transport i:
\* [k, errv, i].
lookupOnExchangeOverwrite(r, i, errv) ==
    IF r.err # NilErr
       THEN [k |-> "continue", errv |-> <<r.err>>, i |-> i + 1]
       ELSE [k |-> "return", errv |-> errv, i |-> i]

lookupOnExchange(r, i, errv) ==
    IF r.err # NilErr
       THEN [k |-> "continue", errv |-> Append(errv, r.err), i |-> i + 1]
       ELSE [k |-> "return", errv |-> errv, i |-> i]

\* The Exchange in flight ends with event x; lookup goes on to the next
\* Exchange, or returns and the Lookup method projects the response.
ExchangeReturn(g, x) ==
    /\ UNCHANGED nonResolverVars
    /\ pc = "running"
    /\ task[g].pc = "exchanging"
    /\ LET t == task[g]
           r == ExchangeResult(g, x)
           nx == lookupOnExchange(r, t.i, t.errv)
           t1 == [t EXCEPT !.outs = Append(t.outs, x @@ r), !.errv = nx.errv,
                           !.i = nx.i]
       IN  IF nx.k = "continue" THEN Continue(g, t1)
           ELSE LET p == Project(g, r.resp)
                IN  IF p.panic THEN Panic(g, t1)
                    ELSE Return(g, t1, p.val, p.err)
    /\ UNCHANGED <<nTransports, timeout, ctxDeadline, ctxErr, op, entryCtx>>

\* LookupHost after wg.Wait(): reads both channels and merges.
LookupHostMergeOr(ares, aaaares) ==
    IF ares.Err # NilErr \/ aaaares.Err # NilErr
       THEN [addrs |-> <<>>, cname |-> <<>>,
             err |-> Join(<<ares.Err, aaaares.Err>>)]
    ELSE LET addrs == ares.Value \o aaaares.Value
         IN  IF Len(addrs) < 1
                THEN [addrs |-> <<>>, cname |-> <<>>, err |-> ErrNoData]
                ELSE [addrs |-> addrs, cname |-> <<>>, err |-> NilErr]

LookupHostMergeSwapped(ares, aaaares) ==
    IF ares.Err # NilErr /\ aaaares.Err # NilErr
       THEN [addrs |-> <<>>, cname |-> <<>>,
             err |-> Join(<<ares.Err, aaaares.Err>>)]
    ELSE LET addrs == aaaares.Value \o ares.Value
         IN  IF Len(addrs) < 1
                THEN [addrs |-> <<>>, cname |-> <<>>, err |-> ErrNoData]
                ELSE [addrs |-> addrs, cname |-> <<>>, err |-> NilErr]

LookupHostMerge(ares, aaaares) ==
    IF ares.Err # NilErr /\ aaaares.Err # NilErr
       THEN [addrs |-> <<>>, cname |-> <<>>,
             err |-> Join(<<ares.Err, aaaares.Err>>)]
    ELSE LET addrs == ares.Value \o aaaares.Value
         IN  IF Len(addrs) < 1
                THEN [addrs |-> <<>>, cname |-> <<>>, err |-> ErrNoData]
                ELSE [addrs |-> addrs, cname |-> <<>>, err |-> NilErr]

LookupHostJoin ==
    /\ UNCHANGED nonResolverVars
    /\ pc = "running"
    /\ op = "LookupHost"
    /\ wg = 0
    /\ Len(ach) >= 1
    /\ Len(aaaach) >= 1
    /\ ret' = LookupHostMerge(Head(ach), Head(aaaach))
    /\ ach' = Tail(ach)
    /\ aaaach' = Tail(aaaach)
    /\ pc' = "done"
    /\ UNCHANGED <<nTransports, timeout, ctxDeadline, ctxErr, op, task, wg,
                   entryCtx, finished>>

\* The caller cancels its context: every context derived from it is done.
CancelCtx ==
    /\ UNCHANGED nonResolverVars
    /\ pc = "running"
    /\ ctxErr = "nil"
    /\ ctxErr' = "Canceled"
    /\ task' = [g \in Tasks |->
                   IF task[g].pc = "exchanging" /\ task[g].ctx = "nil"
                      THEN [task[g] EXCEPT !.ctx = "Canceled"]
                      ELSE task[g]]
    /\ UNCHANGED <<nTransports, timeout, ctxDeadline, op, pc, ach, aaaach,
                   wg, ret, entryCtx,
                   finished>>

\* The resolver timeout of sub-lookup g expires.
TimeoutFires(g) ==
    /\ UNCHANGED nonResolverVars
    /\ pc = "running"
    /\ task[g].pc = "exchanging"
    /\ task[g].ctx = "nil"
    /\ task' = [task EXCEPT ![g].ctx = "DeadlineExceeded"]
    /\ UNCHANGED <<nTransports, timeout, ctxDeadline, ctxErr, op, pc, ach,
                   aaaach, wg, ret,
                   entryCtx, finished>>

NextResolver ==
    \/ \E o \in Ops : Call(o)
    \/ \E g \in Tasks : LookupStart(g)
    \/ \E g \in Tasks : \E x \in ExchangeEvents(g) : ExchangeReturn(g, x)
    \/ LookupHostJoin
    \/ CancelCtx
    \/ \E g \in Tasks : TimeoutFires(g)

(***************************************************************************)
(* Dialer.                                                                 *)
(*                                                                         *)
(* An address is a sequence of tokens: the bytes "[", "]" and ":" that     *)
(* net.SplitHostPort and net.JoinHostPort look for, and runs of other      *)
(* bytes ("203.0.113.7", "example.com", "80").                             *)
(***************************************************************************)
\* The first and the last position of token c in s, 0 when there is none.
IndexByte(s, c) ==
    IF \E k \in 1..Len(s) : s[k] = c
       THEN CHOOSE k \in 1..Len(s) :
                s[k] = c /\ \A m \in 1..(k - 1) : s[m] # c
       ELSE 0

LastIndexByte(s, c) ==
    IF \E k \in 1..Len(s) : s[k] = c
       THEN CHOOSE k \in 1..Len(s) :
                s[k] = c /\ \A m \in (k + 1)..Len(s) : s[m] # c
       ELSE 0

ErrMissingPort == Leaf("missing port in address")
ErrTooManyColons == Leaf("too many colons in address")
ErrMissingBracket == Leaf("missing ']' in address")
ErrUnexpectedBracket == Leaf("unexpected bracket in address")

SplitFailure(e) == [host |-> <<>>, port |-> <<>>, err |-> e]

\* net.SplitHostPort: [host, port, err].
SplitHostPort(hostport) ==
    LET n == Len(hostport)
        i == LastIndexByte(hostport, ":")
        end == IndexByte(hostport, "]")
    IN  IF i = 0 THEN SplitFailure(ErrMissingPort)
        ELSE IF hostport[1] = "["
        THEN IF end = 0 THEN SplitFailure(ErrMissingBracket)
             ELSE IF end = n THEN SplitFailure(ErrMissingPort)
             ELSE IF end + 1 # i
                THEN IF hostport[end + 1] = ":"
                        THEN SplitFailure(ErrTooManyColons)
                        ELSE SplitFailure(ErrMissingPort)
             ELSE IF IndexByte(SubSeq(hostport, 2, n), "[") # 0
                THEN SplitFailure(ErrUnexpectedBracket)
             ELSE IF IndexByte(SubSeq(hostport, end + 2, n), "]") # 0
                THEN SplitFailure(ErrUnexpectedBracket)
             ELSE [host |-> SubSeq(hostport, 2, end - 1),
                   port |-> SubSeq(hostport, i + 1, n), err |-> NilErr]
        ELSE IF IndexByte(SubSeq(hostport, 1, i - 1), ":") # 0
                THEN SplitFailure(ErrTooManyColons)
             ELSE IF IndexByte(hostport, "[") # 0
                THEN SplitFailure(ErrUnexpectedBracket)
             ELSE IF IndexByte(hostport, "]") # 0
                THEN SplitFailure(ErrUnexpectedBracket)
             ELSE [host |-> SubSeq(hostport, 1, i - 1),
                   port |-> SubSeq(hostport, i + 1, n), err |-> NilErr]

\* net.JoinHostPort: a host with a colon goes between brackets.
JoinHostPort(host, port) ==
    IF IndexByte(host, ":") # 0
       THEN <<"[">> \o host \o <<"]", ":">> \o port
       ELSE host \o <<":">> \o port

\* The hosts of this model that net.ParseIP accepts.
IPv4Literal == <<"203.0.113.7">>
IPv6Literal == <<":", ":", "1">>
ParseIP(name) == name \in {IPv4Literal, IPv6Literal}

\* The arguments DialContext is called with.
Networks == {"tcp", "udp"}

Addresses ==
    {<<"203.0.113.7", ":", "80">>,
     <<"[", ":", ":", "1", "]", ":", "80">>,
     <<"[", "203.0.113.7", "]", ":", "80">>,
     <<"example.com", ":", "80">>,
     <<"example.org", ":", "443">>,
     <<"bad-address">>,
     <<":", ":", "1", ":", "80">>,
     <<"[", ":", ":", "1", "]">>}

\* The addresses the injected resolver may return, in any order and number
\* up to MaxAddrs.
ResolvedAddrs == {<<"203.0.113.1">>, <<"2001", ":", "db8", ":", ":", "2">>}

ResolvedLists ==
    UNION {[1..n -> ResolvedAddrs] : n \in 0..MaxAddrs}

ErrLookup == Leaf("lookup failed")
\* The error of the attempt at position j: each attempt fails on its own.
ErrDial(j) == Leaf("dial failed #" \o ToString(j))

NilConn == [ok |-> FALSE, network |-> "", address |-> <<>>]

InitDialer ==
    /\ dNetwork \in Networks
    /\ dAddress \in Addresses
    /\ dpc = "idle"
    /\ dPort = <<>>
    /\ dAddrs = <<>>
    /\ dIdx = 0
    /\ dErrv = <<>>
    /\ dRet = [conn |-> NilConn, err |-> NilErr]
    /\ dLookups = <<>>
    /\ dDials = <<>>
    /\ dOuts = <<>>
    /\ dLookupOuts = <<>>
    \* the Resolver of this module is not used: the resolver is a stub
    /\ nTransports = 0
    /\ ctxErr = "nil"
    /\ op = "none"
    /\ pc = "off"
    /\ task = [g \in Tasks |-> IdleTask]
    /\ ach = <<>>
    /\ aaaach = <<>>
    /\ wg = 0
    /\ ret = NoRet
    /\ entryCtx = "nil"
    /\ finished = <<>>
    /\ timeout = 0
    /\ ctxDeadline = NoDeadline
    \* no exchange runs, the response functions are not applied
    /\ xKind = "none"
    /\ xCtx = [deadline |-> 0, err |-> "nil"]
    /\ xDctx = [deadline |-> 0, err |-> "nil"]
    /\ xHeap = <<>>
    /\ xpc = "off"
    /\ xConn = [dialed |-> FALSE, closed |-> FALSE, deadline |-> 0,
                stream |-> FALSE, sdeadline |-> 0]
    /\ xWatch = "none"
    /\ xMsg = <<>>
    /\ xWire = <<>>
    /\ xLog = <<>>
    /\ xIds = <<>>
    /\ xRespv = <<>>
    /\ xRet = [val |-> NilResponse, err |-> NilErr]
    /\ xQuery0 = <<>>
    /\ xReads = <<>>
    /\ xHooks = [query |-> "nil", response |-> "nil"]
    /\ xHookLog = <<>>
    /\ xHTTP = <<>>
    /\ xWrites = <<>>
    /\ rQuery = <<>>
    /\ rResp = <<>>
    /\ rpc = "off"
    /\ rOut = <<>>
    /\ wIn = <<>>
    /\ wOut = <<>>
    /\ wpc = "off"

DialerReturn(conn, err) ==
    /\ dpc' = "done"
    /\ dRet' = [conn |-> conn, err |-> err]

\* The head of DialContext's loop, entered with the next position i: call
\* the underlying dialer for address i, or leave the loop with the join of
\* the errors.
dialLoopSkip(addrs, i, errv) ==
    IF i + 1 <= Len(addrs) THEN [k |-> "dial", i |-> i + 1]
    ELSE [k |-> "return", i |-> i]

dialLoop(addrs, i, errv) ==
    IF i <= Len(addrs) THEN [k |-> "dial", i |-> i]
    ELSE [k |-> "return", i |-> i]

\* DialContext from the head of its loop to the next call of the underlying
\* dialer, or to its return.
DialContinue(addrs, port, i, errv) ==
    LET nx == dialLoop(addrs, i, errv)
    IN  /\ dErrv' = errv
        /\ dAddrs' = addrs
        /\ dPort' = port
        /\ dIdx' = nx.i
        /\ IF nx.k = "dial"
              THEN /\ dpc' = "dialing"
                   /\ dDials' = Append(dDials,
                          [network |-> dNetwork,
                           address |-> JoinHostPort(addrs[nx.i], port)])
                   /\ UNCHANGED dRet
              ELSE /\ DialerReturn(NilConn, Join(errv))
                   /\ UNCHANGED dDials

DialResolvedNoAssert(addrs, port) == DialContinue(addrs, port, 1, <<>>)

\* DialContext after lookupHost returned addrs with no error.
DialResolved(addrs, port) ==
    IF ~(Len(addrs) >= 1)
       THEN /\ dpc' = "panic"
            /\ dAddrs' = addrs
            /\ dPort' = port
            /\ UNCHANGED <<dIdx, dErrv, dRet, dDials>>
       ELSE DialContinue(addrs, port, 1, <<>>)

\* lookupHost's short circuit: the name is an IP address.
lookupHostShortCircuitNever(name) == FALSE

lookupHostShortCircuit(name) == ParseIP(name)

\* DialContext from its start to the call of the resolver, to the first
\* call of the underlying dialer, or to its return.
DialStart ==
    /\ UNCHANGED nonDialerVars
    /\ dpc = "idle"
    /\ LET sp == SplitHostPort(dAddress)
       IN  IF sp.err # NilErr
              THEN /\ DialerReturn(NilConn, sp.err)
                   /\ UNCHANGED <<dPort, dAddrs, dIdx, dErrv, dLookups,
                                  dDials>>
           ELSE IF lookupHostShortCircuit(sp.host)
              THEN /\ DialResolved(<<sp.host>>, sp.port)
                   /\ UNCHANGED dLookups
           ELSE /\ dpc' = "resolving"
                /\ dPort' = sp.port
                /\ dLookups' = Append(dLookups, sp.host)
                /\ UNCHANGED <<dAddrs, dIdx, dErrv, dRet, dDials>>
    /\ UNCHANGED <<dNetwork, dAddress, dOuts, dLookupOuts>>

\* The resolver's LookupHost fails: DialContext returns its error.
ResolverFailsWrapped ==
    /\ UNCHANGED nonDialerVars
    /\ dpc = "resolving"
    /\ DialerReturn(NilConn, Join(<<ErrLookup>>))
    /\ dLookupOuts' = Append(dLookupOuts, [addrs |-> <<>>, err |-> ErrLookup])
    /\ UNCHANGED <<dNetwork, dAddress, dPort, dAddrs, dIdx, dErrv, dLookups,
                   dDials, dOuts>>

ResolverFails ==
    /\ UNCHANGED nonDialerVars
    /\ dpc = "resolving"
    /\ DialerReturn(NilConn, ErrLookup)
    /\ dLookupOuts' = Append(dLookupOuts, [addrs |-> <<>>, err |-> ErrLookup])
    /\ UNCHANGED <<dNetwork, dAddress, dPort, dAddrs, dIdx, dErrv, dLookups,
                   dDials, dOuts>>

\* The resolver's LookupHost returns a list and no error.
ResolverReturns(addrs) ==
    /\ UNCHANGED nonDialerVars
    /\ dpc = "resolving"
    /\ DialResolved(addrs, dPort)
    /\ dLookupOuts' = Append(dLookupOuts, [addrs |-> addrs, err |-> NilErr])
    /\ UNCHANGED <<dNetwork, dAddress, dLookups, dOuts>>

\* What DialContext does with the result of the attempt at position i.
dialOnResultOverwrite(ok, i, errv, e) ==
    IF ~ok THEN [k |-> "continue", errv |-> <<e>>, i |-> i + 1]
    ELSE [k |-> "return", errv |-> errv, i |-> i]

dialOnResultNoStop(ok, i, errv, e) ==
    IF ~ok THEN [k |-> "continue", errv |-> Append(errv, e), i |-> i + 1]
    ELSE [k |-> "continue", errv |-> errv, i |-> i + 1]

dialOnResult(ok, i, errv, e) ==
    IF ~ok THEN [k |-> "continue", errv |-> Append(errv, e), i |-> i + 1]
    ELSE [k |-> "return", errv |-> errv, i |-> i]

\* The call of the underlying dialer in flight returns: a connection to the
\* address it was given (ok), or an error.
DialReturns(ok) ==
    /\ UNCHANGED nonDialerVars
    /\ dpc = "dialing"
    /\ LET call == dDials[Len(dDials)]
           conn == IF ok THEN [ok |-> TRUE, network |-> call.network,
                               address |-> call.address]
                   ELSE NilConn
           e == IF ok THEN NilErr ELSE ErrDial(dIdx)
           nx == dialOnResult(ok, dIdx, dErrv, e)
       IN  /\ dOuts' = Append(dOuts, [conn |-> conn, err |-> e])
           /\ IF nx.k = "continue"
                 THEN DialContinue(dAddrs, dPort, nx.i, nx.errv)
                 ELSE /\ DialerReturn(conn, NilErr)
                      /\ UNCHANGED <<dPort, dAddrs, dIdx, dErrv, dDials>>
    /\ UNCHANGED <<dNetwork, dAddress, dLookups, dLookupOuts>>

NextDialer ==
    \/ DialStart
    \/ ResolverFails
    \/ \E addrs \in ResolvedLists : ResolverReturns(addrs)
    \/ \E ok \in BOOLEAN : DialReturns(ok)

(***************************************************************************)
(* QUICDialConfig.DialContext, on the Dialer's variables: the same steps  *)
(* without the IP-literal short circuit and without the assertion; every  *)
(* attempt listens on a new UDP socket and dials over it.  The addresses   *)
(* the resolver returns and the ports are ones netip.MustParseAddrPort     *)
(* accepts.                                                                *)
(***************************************************************************)
InitQUICDial ==
    /\ dNetwork \in Networks
    /\ dAddress \in Addresses
    /\ dpc = "idle"
    /\ dPort = <<>>
    /\ dAddrs = <<>>
    /\ dIdx = 0
    /\ dErrv = <<>>
    /\ dRet = [conn |-> NilConn, err |-> NilErr]
    /\ dLookups = <<>>
    /\ dDials = <<>>
    /\ dOuts = <<>>
    /\ dLookupOuts = <<>>
    \* the Resolver of this module is not used: the resolver is a stub
    /\ nTransports = 0
    /\ ctxErr = "nil"
    /\ op = "none"
    /\ pc = "off"
    /\ task = [g \in Tasks |-> IdleTask]
    /\ ach = <<>>
    /\ aaaach = <<>>
    /\ wg = 0
    /\ ret = NoRet
    /\ entryCtx = "nil"
    /\ finished = <<>>
    /\ timeout = 0
    /\ ctxDeadline = NoDeadline
    \* no exchange runs, the response functions are not applied
    /\ xKind = "none"
    /\ xCtx = [deadline |-> 0, err |-> "nil"]
    /\ xDctx = [deadline |-> 0, err |-> "nil"]
    /\ xHeap = <<>>
    /\ xpc = "off"
    /\ xConn = [dialed |-> FALSE, closed |-> FALSE, deadline |-> 0,
                stream |-> FALSE, sdeadline |-> 0]
    /\ xWatch = "none"
    /\ xMsg = <<>>
    /\ xWire = <<>>
    /\ xLog = <<>>
    /\ xIds = <<>>
    /\ xRespv = <<>>
    /\ xRet = [val |-> NilResponse, err |-> NilErr]
    /\ xQuery0 = <<>>
    /\ xReads = <<>>
    /\ xHooks = [query |-> "nil", response |-> "nil"]
    /\ xHookLog = <<>>
    /\ xHTTP = <<>>
    /\ xWrites = <<>>
    /\ rQuery = <<>>
    /\ rResp = <<>>
    /\ rpc = "off"
    /\ rOut = <<>>
    /\ wIn = <<>>
    /\ wOut = <<>>
    /\ wpc = "off"

\* DialContext from the head of its loop to the next call of dialUDPAddr, or
\* to its return.
QDialContinue(addrs, port, i, errv) ==
    LET nx == dialLoop(addrs, i, errv)
    IN  /\ dErrv' = errv
        /\ dAddrs' = addrs
        /\ dPort' = port
        /\ dIdx' = nx.i
        /\ IF nx.k = "dial"
              THEN /\ dpc' = "dialing"
                   /\ dDials' = Append(dDials,
                          [network |-> "udp",
                           address |-> JoinHostPort(addrs[nx.i], port)])
                   /\ UNCHANGED dRet
              ELSE /\ DialerReturn(NilConn, Join(errv))
                   /\ UNCHANGED dDials

\* DialContext from its start to the call of the resolver, or to its return.
QDialStart ==
    /\ UNCHANGED nonDialerVars
    /\ dpc = "idle"
    /\ LET sp == SplitHostPort(dAddress)
       IN  IF sp.err # NilErr
              THEN /\ DialerReturn(NilConn, sp.err)
                   /\ UNCHANGED <<dPort, dLookups>>
              ELSE /\ dpc' = "resolving"
                   /\ dPort' = sp.port
                   /\ dLookups' = Append(dLookups, sp.host)
                   /\ UNCHANGED dRet
    /\ UNCHANGED <<dNetwork, dAddress, dAddrs, dIdx, dErrv, dDials, dOuts,
                   dLookupOuts>>

\* The resolver's LookupHost returns a list and no error.
QResolverReturns(addrs) ==
    /\ UNCHANGED nonDialerVars
    /\ dpc = "resolving"
    /\ QDialContinue(addrs, dPort, 1, <<>>)
    /\ dLookupOuts' = Append(dLookupOuts, [addrs |-> addrs, err |-> NilErr])
    /\ UNCHANGED <<dNetwork, dAddress, dLookups, dOuts>>

\* dialUDPAddr returns: a QUIC connection to the address it was given (ok),
\* or an error.
QDialReturns(ok) ==
    /\ UNCHANGED nonDialerVars
    /\ dpc = "dialing"
    /\ LET call == dDials[Len(dDials)]
           conn == IF ok THEN [ok |-> TRUE, network |-> call.network,
                               address |-> call.address]
                   ELSE NilConn
           e == IF ok THEN NilErr ELSE ErrDial(dIdx)
           nx == dialOnResult(ok, dIdx, dErrv, e)
       IN  /\ dOuts' = Append(dOuts, [conn |-> conn, err |-> e])
           /\ IF nx.k = "continue"
                 THEN QDialContinue(dAddrs, dPort, nx.i, nx.errv)
                 ELSE /\ DialerReturn(conn, NilErr)
                      /\ UNCHANGED <<dPort, dAddrs, dIdx, dErrv, dDials>>
    /\ UNCHANGED <<dNetwork, dAddress, dLookups, dLookupOuts>>

NextQUICDial ==
    \/ QDialStart
    \/ ResolverFails
    \/ \E addrs \in ResolvedLists : QResolverReturns(addrs)
    \/ \E ok \in BOOLEAN : QDialReturns(ok)

SpecQUICDial == InitQUICDial /\ [][NextQUICDial]_vars

(***************************************************************************)
(* Transports.                                                             *)
(*                                                                         *)
(* One exchange of one transport against an environment that decides the   *)
(* outcome of every dial, write and read, when the caller's context is     *)
(* canceled and when a deadline expires.  Times are seconds after the      *)
(* call; 0 stands for "no deadline" (the zero time.Time).                  *)
(***************************************************************************)
\* The most datagrams ExchangeAndCollectDuplicates receives in this model.
MaxDatagrams == 3

queryFlagBlockLengthPadding == 1
queryFlagDNSSec == 2
queryMaxResponseSizeUDP == 1232
queryMaxResponseSizeTCP == 4096
\* ExchangeAndCollectDuplicates's defaultLongDeadline (time.Minute).
defaultLongDeadline == 60

\* The Exchange methods: UDPExchanger.Exchange ("udp"),
\* UDPExchanger.ExchangeAndCollectDuplicates ("udpdup"),
\* DNSOverUDPTransport.Exchange ("dnsoverudp"), StreamExchanger.Exchange
\* over a plain TCP connection ("tcp") and over a TLS connection ("tls"),
\* QUICExchanger.Exchange ("quic") and HTTPSExchanger.Exchange ("https").
XKinds == {"udp", "udpdup", "dnsoverudp", "tcp", "tls", "quic", "https"}

\* The transports whose I/O goes through a QUIC stream.
OnStream(kind) == kind = "quic"

\* The caller's contexts: without a deadline, or with one of two.
CtxDeadlines == {NoDeadline, 5, 90}

\* Bit b (1 or 2) of a flag set.
HasFlag(flags, b) == (flags \div b) % 2 = 1

\* flags |= g, for the two flags of a Query.
FlagsOr(flags, g) ==
    (IF HasFlag(flags, 1) \/ HasFlag(g, 1) THEN 1 ELSE 0)
        + (IF HasFlag(flags, 2) \/ HasFlag(g, 2) THEN 2 ELSE 0)

\* The names the caller asks for: "W", and "_" which idna.Lookup refuses.
XName == <<87>>
BadName == <<95>>

\* The Query values the caller passes: [Name, Type, flags, id, maxSize].
Queries ==
    [Name : {XName, BadName}, Type : {TypeA}, flags : {0, 1}, id : {0, 7},
     maxSize : {512}]

\* The ids dns.Id() returns in this model.
RandIds == {7, 9}

ErrIDNA == Leaf("idna: disallowed rune")
ErrClosed == Leaf("use of closed network connection")
ErrOSDeadlineExceeded == Leaf("i/o timeout")
ErrUnpack == Leaf("dns: bad message")

\* Query.Clone: a new object holding a copy of every field.  The result is
\* [heap, ptr]: the heap with the new object and its pointer.
QueryCloneAlias(heap, p) == [heap |-> heap, ptr |-> p]

QueryClone(heap, p) ==
    [heap |-> Append(heap,
                  [Name |-> heap[p].Name, Type |-> heap[p].Type,
                   flags |-> heap[p].flags, id |-> heap[p].id,
                   maxSize |-> heap[p].maxSize]),
     ptr |-> Len(heap) + 1]

\* idna.Lookup.ToASCII on the ASCII names of this model: [val, err].
ToASCII(name) ==
    IF \E i \in 1..Len(name) : name[i] = 95
       THEN [val |-> <<>>, err |-> ErrIDNA]
       ELSE [val |-> [i \in 1..Len(name) |-> ToLowerASCII(name[i])],
             err |-> NilErr]

\* dns.Fqdn.
Fqdn(name) ==
    IF name # <<>> /\ name[Len(name)] = 46 THEN name ELSE Append(name, 46)

\* Query.NewMsg: [msg, err].  UDPSize and Do are the EDNS(0) options
\* SetEdns0 writes; Padding tells whether the padding option was added.
NewMsg(q) ==
    LET puny == ToASCII(q.Name)
    IN  IF puny.err # NilErr THEN [msg |-> <<>>, err |-> puny.err]
        ELSE [msg |->
                  [Response |-> FALSE,
                   Id |-> q.id,
                   RecursionDesired |-> TRUE,
                   Question |-> <<[Name |-> Fqdn(puny.val),
                                   Qtype |-> q.Type,
                                   Qclass |-> ClassINET]>>,
                   UDPSize |-> q.maxSize,
                   Do |-> HasFlag(q.flags, queryFlagDNSSec),
                   Padding |-> HasFlag(q.flags, queryFlagBlockLengthPadding)],
              err |-> NilErr]

\* The step "mutate and serialize the query" of every Exchange up to the
\* call of NewMsg: the clone, then the fields the transport overwrites; id
\* is what dns.Id() returns where the transport calls it.  The result is
\* [heap, ptr], ptr being the Query that is serialized.
mutateQueryDoHKeepsId(kind, heap, id) ==
    LET c == QueryClone(heap, 1)
        q == c.heap[c.ptr]
    IN  [heap |-> [c.heap EXCEPT ![c.ptr] =
                      [q EXCEPT !.maxSize = queryMaxResponseSizeTCP]],
         ptr |-> c.ptr]

mutateQueryFlagsOnPlainTCP(kind, heap, id) ==
    LET c == QueryClone(heap, 1)
        q == c.heap[c.ptr]
    IN  [heap |-> [c.heap EXCEPT ![c.ptr] =
                      [q EXCEPT !.flags =
                                    FlagsOr(q.flags,
                                        FlagsOr(queryFlagBlockLengthPadding,
                                                queryFlagDNSSec)),
                                !.id = id,
                                !.maxSize = queryMaxResponseSizeTCP]],
         ptr |-> c.ptr]

mutateQuery(kind, heap, id) ==
    LET c == QueryClone(heap, 1)
        q == c.heap[c.ptr]
        flags ==
            IF kind \in {"tls", "quic", "https"}
               THEN FlagsOr(q.flags,
                        FlagsOr(queryFlagBlockLengthPadding, queryFlagDNSSec))
               ELSE q.flags
        newid ==
            IF kind \in {"udp", "udpdup", "tcp", "tls"} THEN id
            ELSE IF kind \in {"quic", "https"} THEN 0
            ELSE q.id
        maxSize ==
            IF kind \in {"udp", "udpdup", "dnsoverudp"}
               THEN queryMaxResponseSizeUDP
               ELSE queryMaxResponseSizeTCP
    IN  [heap |-> [c.heap EXCEPT ![c.ptr] =
                      [q EXCEPT !.flags = flags, !.id = newid,
                                !.maxSize = maxSize]],
         ptr |-> c.ptr]

\* Whether the Exchange calls dns.Id().
DrawsId(kind) == kind \in {"udp", "udpdup", "tcp", "tls"}

deriveContextNoTimeout(kind, parent) == parent

\* The context Exchange derives after the dial: context.WithCancel, or for
\* ExchangeAndCollectDuplicates context.WithTimeout of one minute, whose
\* deadline is the earlier of the parent's and its own.
deriveContext(kind, parent) ==
    IF kind = "udpdup"
       THEN [deadline |->
                 IF parent.deadline = NoDeadline
                       \/ parent.deadline > defaultLongDeadline
                    THEN defaultLongDeadline
                    ELSE parent.deadline,
             err |-> parent.err]
       ELSE parent

\* cancel(): the derived context becomes done unless it already is.
CancelFunc(ctx) ==
    IF ctx.err = "nil" THEN [ctx EXCEPT !.err = "Canceled"] ELSE ctx

\* The step "use the context deadline": the deadline Exchange sets on the
\* connection or stream, NoDeadline when it sets none.
setDeadlineAlways(ctx) ==
    IF ctx.deadline # NoDeadline THEN ctx.deadline ELSE defaultLongDeadline

setDeadline(ctx) ==
    IF ctx.deadline # NoDeadline THEN ctx.deadline ELSE NoDeadline

\* A call made on the connection ("conn") or the stream ("stream"); d is
\* the argument of SetDeadline.
Op(name, on, d) == [op |-> name, on |-> on, d |-> d]

\* The calls "SetDeadline(deadline)" of the step above, if any.
SetDeadlineOps(kind, d) ==
    IF d = NoDeadline THEN <<>>
    ELSE <<Op("SetDeadline", IF OnStream(kind) THEN "stream" ELSE "conn", d)>>

\* DNSOverUDPTransport's SendQuery and RecvResponse clear the deadline they
\* set when they return (defer conn.SetDeadline(time.Time{})).
ClearDeadlineOps(kind, d) ==
    IF kind = "dnsoverudp" /\ d # NoDeadline
       THEN <<Op("SetDeadline", "conn", NoDeadline)>>
       ELSE <<>>

ClearedConnKeepsDeadline(kind, conn) == conn

\* The connection after those calls.
ClearedConn(kind, conn) ==
    IF kind = "dnsoverudp" THEN [conn EXCEPT !.deadline = NoDeadline]
    ELSE conn

\* The datagrams (or stream messages, or HTTP bodies) the environment
\* delivers in answer to query message q: one that dns.Msg.Unpack refuses,
\* and the packed form of four replies: an address, another address, a name
\* error, and an address under a wrong id.
XReplies(q) ==
    {Reply(q, RcodeSuccess, FALSE, TRUE,
           <<RRA(q.Question[1].Name, "192.0.2.1")>>),
     Reply(q, RcodeSuccess, FALSE, TRUE,
           <<RRA(q.Question[1].Name, "192.0.2.9")>>),
     ReplyNXDOMAIN(q),
     Reply([q EXCEPT !.Id = (q.Id + 1) % 65536], RcodeSuccess, FALSE, TRUE,
           <<RRA(q.Question[1].Name, "192.0.2.1")>>)}

XDatagrams(q) ==
    {[unpack |-> FALSE, msg |-> ReplyLame(q)]}
        \cup {[unpack |-> TRUE, msg |-> m] : m \in XReplies(q)}

\* Steps "parse the response" of an Exchange: [resp, err].
parseResponse(queryMsg, dgram) ==
    IF ~dgram.unpack THEN [resp |-> NilResponse, err |-> ErrUnpack]
    ELSE NewResponse(queryMsg, dgram.msg)

\* What an observer hook of DNSOverUDPTransport is: nil, a function that
\* reads the slice it receives, or one that also flips its first byte (as
\* the hooks of the tests do).  The other transports have no hooks.
HookModes == {"nil", "observe", "mutate"}

NoHooks == [query |-> "nil", response |-> "nil"]

\* p[0] ^= 0xff on a packed message, whose first byte is the high byte of
\* the id.
FlipFirstByte(m) ==
    [m EXCEPT !.Id = (255 - (m.Id \div 256)) * 256 + (m.Id % 256)]

bytesCloneAlias(bufs, p) == [bufs |-> bufs, ptr |-> p]

\* bytes.Clone on the byte slices bufs: [bufs, ptr], ptr being the copy.
bytesClone(bufs, p) == [bufs |-> Append(bufs, bufs[p]), ptr |-> Len(bufs) + 1]

\* if hook != nil { hook(bytes.Clone(raw)) }: [raw, calls], raw being the
\* slice after the hook ran and calls what the hook received.
observeRaw(hook, mode, raw) ==
    IF mode = "nil" THEN [raw |-> raw, calls |-> <<>>]
    ELSE LET c == bytesClone(<<raw>>, 1)
             after == IF mode = "mutate"
                         THEN [c.bufs EXCEPT ![c.ptr] = FlipFirstByte(@)]
                         ELSE c.bufs
         IN  [raw |-> after[1],
              calls |-> <<[hook |-> hook, seen |-> c.bufs[c.ptr]]>>]

NoConn ==
    [dialed |-> FALSE, closed |-> FALSE, deadline |-> NoDeadline,
     stream |-> FALSE, sdeadline |-> NoDeadline]

NoXRet == [val |-> NilResponse, err |-> NilErr]

InitExchange ==
    /\ xKind \in XKinds
    /\ xCtx \in [deadline : CtxDeadlines, err : {"nil"}]
    /\ xDctx = [deadline |-> NoDeadline, err |-> "nil"]
    /\ xHeap \in [{1} -> Queries]
    /\ xpc = "idle"
    /\ xConn = NoConn
    /\ xWatch = "none"
    /\ xMsg = <<>>
    /\ xWire = <<>>
    /\ xLog = <<>>
    /\ xIds = <<>>
    /\ xRespv = <<>>
    /\ xRet = NoXRet
    /\ xQuery0 = xHeap[1]
    /\ xReads = <<>>
    /\ xHooks \in IF xKind = "dnsoverudp" THEN [query : HookModes,
                                                response : HookModes]
                  ELSE {NoHooks}
    /\ xHookLog = <<>>
    /\ xHTTP = <<>>
    /\ xWrites = <<>>
    \* the Resolver, the Dialer and the response functions are not used
    /\ nTransports = 0
    /\ ctxErr = "nil"
    /\ op = "none"
    /\ pc = "off"
    /\ task = [g \in Tasks |-> IdleTask]
    /\ ach = <<>>
    /\ aaaach = <<>>
    /\ wg = 0
    /\ ret = NoRet
    /\ entryCtx = "nil"
    /\ finished = <<>>
    /\ timeout = 0
    /\ ctxDeadline = NoDeadline
    /\ dNetwork = "tcp"
    /\ dAddress = <<>>
    /\ dpc = "off"
    /\ dPort = <<>>
    /\ dAddrs = <<>>
    /\ dIdx = 0
    /\ dErrv = <<>>
    /\ dRet = [conn |-> NilConn, err |-> NilErr]
    /\ dLookups = <<>>
    /\ dDials = <<>>
    /\ dOuts = <<>>
    /\ dLookupOuts = <<>>
    /\ rQuery = <<>>
    /\ rResp = <<>>
    /\ rpc = "off"
    /\ rOut = <<>>
    /\ wIn = <<>>
    /\ wOut = <<>>
    /\ wpc = "off"

XReturnNoCancel(val, err, conn, dctx, log) ==
    /\ xpc' = "done"
    /\ xRet' = [val |-> val, err |-> err]
    /\ xConn' = conn
    /\ xLog' = IF conn.stream THEN Append(log, Op("Close", "stream", 0))
               ELSE log
    /\ xDctx' = dctx

\* Exchange returns (val, err).  Its deferred calls run: the stream's
\* Close in the QUIC exchange once the stream was opened, then cancel() once
\* the dial succeeded.  log is the history up to the return.
XReturn(val, err, conn, dctx, log) ==
    /\ xpc' = "done"
    /\ xRet' = [val |-> val, err |-> err]
    /\ xConn' = conn
    /\ xLog' = IF conn.stream THEN Append(log, Op("Close", "stream", 0))
               ELSE log
    /\ xDctx' = IF conn.dialed THEN CancelFunc(dctx) ELSE dctx

\* The caller invokes Exchange.  Every transport but HTTPS starts with the
\* dial; HTTPS builds the query and starts the HTTP round trip.
XCall ==
    /\ UNCHANGED nonExchangeVars
    /\ xpc = "idle"
    /\ IF xKind # "https"
          THEN /\ xpc' = "dialing"
               /\ UNCHANGED <<xHeap, xMsg, xWire, xRet, xConn, xLog, xDctx>>
          ELSE LET m == mutateQuery(xKind, xHeap, 0)
                   built == NewMsg(m.heap[m.ptr])
               IN  /\ xHeap' = m.heap
                   /\ IF built.err # NilErr
                         THEN /\ XReturn(NilResponse, built.err, xConn, xDctx,
                                         xLog)
                              /\ UNCHANGED <<xMsg, xWire>>
                         ELSE /\ xpc' = "roundtrip"
                              /\ xMsg' = built.msg
                              /\ xWire' = Append(xWire, built.msg)
                              /\ UNCHANGED <<xRet, xConn, xLog, xDctx>>
    /\ UNCHANGED <<xKind, xCtx, xWatch, xIds, xRespv, xQuery0,
                   xReads, xHooks, xHookLog, xHTTP,
                   xWrites>>

\* The dial returns.  On failure Exchange returns the error.  On success
\* Exchange derives its context, starts the background goroutine, (QUIC)
\* opens the stream, sets the deadline, builds the query message and calls
\* Write.  sok: OpenStream succeeds; id: what dns.Id() returns.
XDialReturns(ok, sok, id) ==
    /\ UNCHANGED nonExchangeVars
    /\ xpc = "dialing"
    /\ LET dctx == deriveContext(xKind, xCtx)
           d == setDeadline(dctx)
           on == IF OnStream(xKind) THEN "stream" ELSE "conn"
           conn0 == [NoConn EXCEPT !.dialed = TRUE]
           conn1 == IF OnStream(xKind)
                       THEN [conn0 EXCEPT !.stream = TRUE, !.sdeadline = d]
                       ELSE [conn0 EXCEPT !.deadline = d]
           m == mutateQuery(xKind, xHeap, id)
           built == NewMsg(m.heap[m.ptr])
           log1 == xLog \o SetDeadlineOps(xKind, d)
       IN  IF ~ok
              THEN /\ XReturn(NilResponse, ErrIO, xConn, xDctx, xLog)
                   /\ UNCHANGED <<xHeap, xWatch, xMsg, xWire, xIds, xHookLog>>
           ELSE IF OnStream(xKind) /\ ~sok
              THEN /\ XReturn(NilResponse, ErrIO, conn0, dctx, xLog)
                   /\ xWatch' = "waiting"
                   /\ UNCHANGED <<xHeap, xMsg, xWire, xIds, xHookLog>>
           ELSE /\ xWatch' = "waiting"
                /\ xHeap' = m.heap
                /\ xIds' = IF DrawsId(xKind) THEN Append(xIds, id) ELSE xIds
                /\ IF built.err # NilErr
                      THEN /\ XReturn(NilResponse, built.err,
                                      ClearedConn(xKind, conn1), dctx,
                                      log1 \o ClearDeadlineOps(xKind, d))
                           /\ UNCHANGED <<xMsg, xWire, xHookLog>>
                      ELSE LET obs == observeRaw("query", xHooks.query,
                                                 built.msg)
                           IN  /\ xpc' = "writing"
                               /\ xMsg' = built.msg
                               /\ xHookLog' = xHookLog \o obs.calls
                               /\ xWire' = Append(xWire, obs.raw)
                               /\ xConn' = conn1
                               /\ xDctx' = dctx
                               /\ xLog' = Append(log1, Op("Write", on, 0))
                               /\ UNCHANGED xRet
    /\ UNCHANGED <<xKind, xCtx, xRespv, xQuery0, xReads, xHooks, xHTTP,
                   xWrites>>

\* The deadline in force on what Exchange reads from and writes to.
IODeadline == IF OnStream(xKind) THEN xConn.sdeadline ELSE xConn.deadline

closeWriteSideOmitted(kind, log) == log

\* The QUIC exchange's stream.Close() between the Write and the reads,
\* which closes the write side of the stream.
closeWriteSide(kind, log) ==
    IF OnStream(kind) THEN Append(log, Op("Close", "stream", 0)) ELSE log

writeFailedIgnored(ok) == FALSE

\* if _, err := conn.Write(...); err != nil { return nil, err }
writeFailed(ok) == ~ok

\* Write returns.  It cannot succeed once the connection is closed.  On
\* success Exchange (QUIC) closes the stream and calls Read.
XWriteReturns(ok) ==
    /\ UNCHANGED nonExchangeVars
    /\ xpc = "writing"
    /\ ok => ~xConn.closed
    /\ xWrites' = Append(xWrites, ok)
    /\ LET on == IF OnStream(xKind) THEN "stream" ELSE "conn"
           d == IODeadline
           log1 == xLog \o ClearDeadlineOps(xKind, d)
           log2 == closeWriteSide(xKind, log1)
       IN  IF writeFailed(ok)
              THEN XReturn(NilResponse, ErrIO, ClearedConn(xKind, xConn),
                           xDctx, log1)
              ELSE /\ xpc' = "reading"
                   /\ xLog' = Append(log2 \o SetDeadlineOps(xKind,
                                         IF xKind = "dnsoverudp" THEN d
                                         ELSE NoDeadline),
                                     Op("Read", on, 0))
                   /\ UNCHANGED <<xRet, xConn, xDctx>>
    /\ UNCHANGED <<xKind, xCtx, xHeap, xWatch, xMsg, xWire, xIds, xRespv,
                   xQuery0,
                   xReads, xHooks, xHookLog, xHTTP>>

collectOnReadErrorSwallowsAlways(respv, e) ==
    LET expectedErr ==
            ErrorsIs(e, ErrClosed) \/ ErrorsIs(e, ErrOSDeadlineExceeded)
    IN  IF expectedErr
           THEN [val |-> respv, err |-> NilErr]
           ELSE [val |-> respv, err |-> e]

appendResponseInFront(respv, r) ==
    IF r.err = NilErr THEN <<r.resp>> \o respv ELSE respv

\* What ExchangeAndCollectDuplicates does with r, the result of unpacking
\* a datagram and of NewResponse: it keeps the response or skips it.
appendResponse(respv, r) ==
    IF r.err = NilErr THEN Append(respv, r.resp) ELSE respv

\* What ExchangeAndCollectDuplicates returns when Read fails with e.
collectOnReadError(respv, e) ==
    LET expectedErr ==
            ErrorsIs(e, ErrClosed) \/ ErrorsIs(e, ErrOSDeadlineExceeded)
    IN  IF Len(respv) > 0 /\ expectedErr
           THEN [val |-> respv, err |-> NilErr]
           ELSE [val |-> respv, err |-> e]

\* Read fails with error e.
XReadFailsWith(e) ==
    LET log1 == xLog \o ClearDeadlineOps(xKind, IODeadline)
    IN  IF xKind = "udpdup"
           THEN XReturn(collectOnReadError(xRespv, e).val,
                        collectOnReadError(xRespv, e).err, xConn, xDctx, log1)
           ELSE XReturn(NilResponse, e, ClearedConn(xKind, xConn), xDctx,
                        log1)

\* The read in flight fails while the connection is open: an I/O error, or
\* the expiry of the deadline set on the connection or stream.
XReadFails(e) ==
    /\ UNCHANGED nonExchangeVars
    /\ xpc = "reading"
    /\ ~xConn.closed
    /\ e = ErrOSDeadlineExceeded => IODeadline # NoDeadline
    /\ XReadFailsWith(e)
    /\ xReads' = Append(xReads, [dgram |-> <<>>, err |-> e])
    /\ UNCHANGED <<xKind, xCtx, xHeap, xWatch, xMsg, xWire, xIds, xRespv,
                   xQuery0, xHooks, xHookLog, xHTTP,
                   xWrites>>

\* The read in flight returns because the connection was closed.
XReadClosed ==
    /\ UNCHANGED nonExchangeVars
    /\ xpc = "reading"
    /\ xConn.closed
    /\ XReadFailsWith(ErrClosed)
    /\ xReads' = Append(xReads, [dgram |-> <<>>, err |-> ErrClosed])
    /\ UNCHANGED <<xKind, xCtx, xHeap, xWatch, xMsg, xWire, xIds, xRespv,
                   xQuery0, xHooks, xHookLog, xHTTP,
                   xWrites>>

\* The read in flight returns a datagram (a whole message on a stream).
\* Exchange parses it and returns; ExchangeAndCollectDuplicates keeps it if
\* it parses and reads again.
XReadReturns(dgram) ==
    /\ UNCHANGED nonExchangeVars
    /\ xpc = "reading"
    /\ ~xConn.closed
    /\ LET obs == observeRaw("response", xHooks.response, dgram.msg)
           r == parseResponse(xMsg, [dgram EXCEPT !.msg = obs.raw])
           log1 == xLog \o ClearDeadlineOps(xKind, IODeadline)
       IN  /\ xReads' = Append(xReads, [dgram |-> dgram, err |-> NilErr])
           /\ xHookLog' = xHookLog \o obs.calls
           /\ IF xKind = "udpdup"
                 THEN /\ Len(SelectSeq(xLog, LAMBDA o : o.op = "Read"))
                             <= MaxDatagrams
                      /\ xRespv' = appendResponse(xRespv, r)
                      /\ xLog' = Append(xLog, Op("Read", "conn", 0))
                      /\ UNCHANGED <<xpc, xRet, xConn, xDctx>>
                 ELSE /\ XReturn(r.resp, r.err, ClearedConn(xKind, xConn),
                                 xDctx, log1)
                      /\ UNCHANGED xRespv
    /\ UNCHANGED <<xKind, xCtx, xHeap, xWatch, xMsg, xWire, xIds, xQuery0,
                   xHooks, xHTTP, xWrites>>

\* The HTTP round trip returns: a failure of Client.Do (ok = FALSE), or a
\* response with a status, a content type and a body that can be read or
\* not.
httpsRefusesIgnoresContentType(status, ctype, bodyok) ==
    \/ status # 200
    \/ ~bodyok

httpsRefuses(status, ctype, bodyok) ==
    \/ status # 200
    \/ ctype # "application/dns-message"
    \/ ~bodyok

\* Whether the HTTPS exchange gets as far as reading the body.
httpsReadsBody(status, ctype) ==
    status = 200 /\ ctype = "application/dns-message"

XHTTPReturns(ok, status, ctype, bodyok, dgram) ==
    /\ UNCHANGED nonExchangeVars
    /\ xpc = "roundtrip"
    /\ LET r == parseResponse(xMsg, dgram)
           refused == httpsRefuses(status, ctype, bodyok)
       IN  /\ xHTTP' = Append(xHTTP,
                  [ok |-> ok, status |-> status, ctype |-> ctype,
                   bodyok |-> bodyok,
                   read |-> ok /\ httpsReadsBody(status, ctype),
                   unpacked |-> ok /\ ~refused])
           /\ IF ~ok THEN XReturn(NilResponse, ErrIO, xConn, xDctx, xLog)
              ELSE IF refused
                 THEN XReturn(NilResponse, ErrServerMisbehaving, xConn, xDctx,
                              xLog)
              ELSE XReturn(r.resp, r.err, xConn, xDctx, xLog)
    /\ UNCHANGED <<xKind, xCtx, xHeap, xWatch, xMsg, xWire, xIds, xRespv,
                   xQuery0, xReads, xHooks, xHookLog, xWrites>>

\* The background goroutine: once the derived context is done it closes the
\* connection (CloseWithError for QUIC) and ends.
XWatcherCloses ==
    /\ UNCHANGED nonExchangeVars
    /\ xWatch = "waiting"
    /\ xDctx.err # "nil"
    /\ xWatch' = "done"
    /\ xConn' = [xConn EXCEPT !.closed = TRUE]
    /\ xLog' = Append(xLog, Op("Close", "conn", 0))
    /\ UNCHANGED <<xKind, xCtx, xDctx, xHeap, xpc, xMsg, xWire, xIds, xRespv,
                   xRet, xQuery0,
                   xReads, xHooks, xHookLog, xHTTP,
                   xWrites>>

XContextDoneNoPropagation(e) ==
    /\ xCtx' = [xCtx EXCEPT !.err = e]
    /\ xDctx' = xDctx

\* A context becomes done with error e; the context derived from it, if it
\* exists and is not yet done, becomes done with it.
XContextDone(e) ==
    /\ xCtx' = [xCtx EXCEPT !.err = e]
    /\ xDctx' = IF xConn.dialed /\ xDctx.err = "nil"
                   THEN [xDctx EXCEPT !.err = e] ELSE xDctx

\* The caller cancels its context while Exchange runs.
XCancelCtx ==
    /\ UNCHANGED nonExchangeVars
    /\ xpc \notin {"idle", "done"}
    /\ xCtx.err = "nil"
    /\ XContextDone("Canceled")
    /\ UNCHANGED <<xKind, xHeap, xpc, xConn, xWatch, xMsg, xWire, xLog, xIds,
                   xRespv, xRet, xQuery0,
                   xReads, xHooks, xHookLog, xHTTP,
                   xWrites>>

\* The deadline of the caller's context expires while Exchange runs.
XDeadlineExpires ==
    /\ UNCHANGED nonExchangeVars
    /\ xpc \notin {"idle", "done"}
    /\ xCtx.err = "nil"
    /\ xCtx.deadline # NoDeadline
    /\ XContextDone("DeadlineExceeded")
    /\ UNCHANGED <<xKind, xHeap, xpc, xConn, xWatch, xMsg, xWire, xLog, xIds,
                   xRespv, xRet, xQuery0,
                   xReads, xHooks, xHookLog, xHTTP,
                   xWrites>>

\* The timeout of the derived context expires (only
\* ExchangeAndCollectDuplicates derives a context with its own timeout).
XTimeoutExpires ==
    /\ UNCHANGED nonExchangeVars
    /\ xpc \notin {"idle", "done"}
    /\ xConn.dialed
    /\ xDctx.err = "nil"
    /\ xDctx.deadline # xCtx.deadline
    /\ xDctx' = [xDctx EXCEPT !.err = "DeadlineExceeded"]
    /\ UNCHANGED <<xKind, xCtx, xHeap, xpc, xConn, xWatch, xMsg, xWire, xLog,
                   xIds, xRespv, xRet, xQuery0,
                   xReads, xHooks, xHookLog, xHTTP,
                   xWrites>>

\* What the read (or round trip) in flight can deliver.
Arrivals ==
    IF xpc \in {"reading", "roundtrip"} THEN XDatagrams(xMsg) ELSE {}

HTTPStatuses == {200, 500}
HTTPContentTypes ==
    {"application/dns-message", "application/dns-message; charset=utf-8",
     "text/html"}

NextExchange ==
    \/ XCall
    \/ \E ok \in BOOLEAN, sok \in BOOLEAN, id \in RandIds :
           XDialReturns(ok, sok, id)
    \/ \E ok \in BOOLEAN : XWriteReturns(ok)
    \/ \E e \in {ErrIO, ErrOSDeadlineExceeded} : XReadFails(e)
    \/ XReadClosed
    \/ \E dgram \in Arrivals : XReadReturns(dgram)
    \/ \E ok \in BOOLEAN, status \in HTTPStatuses, ctype \in HTTPContentTypes,
          bodyok \in BOOLEAN, dgram \in Arrivals :
           XHTTPReturns(ok, status, ctype, bodyok, dgram)
    \/ XWatcherCloses
    \/ XCancelCtx
    \/ XDeadlineExpires
    \/ XTimeoutExpires

SpecExchange == InitExchange /\ [][NextExchange]_vars

\* The Go scheduler runs the background goroutine once its context is done,
\* and a read on a closed connection returns.
SpecExchangeFair ==
    /\ InitExchange
    /\ [][NextExchange]_vars
    /\ WF_vars(XWatcherCloses)
    /\ WF_vars(XReadClosed)

\* Moreover time passes: a deadline and a timeout that are pending expire.
SpecExchangeTimed ==
    /\ InitExchange
    /\ [][NextExchange]_vars
    /\ WF_vars(XWatcherCloses)
    /\ WF_vars(XReadClosed)
    /\ WF_vars(XDeadlineExpires)
    /\ WF_vars(XTimeoutExpires)

(***************************************************************************)
(* DNSOverUDPTransport.ExchangeWithConn on a connection of the caller:     *)
(* SendQuery, then RecvResponse, which are the steps of the exchange above *)
(* from the deadline on; nothing is dialed, no context is derived and no   *)
(* goroutine is started.                                                   *)
(***************************************************************************)
InitWithConn ==
    /\ xKind = "dnsoverudp"
    /\ xCtx \in [deadline : CtxDeadlines, err : {"nil"}]
    /\ xDctx = [deadline |-> NoDeadline, err |-> "nil"]
    /\ xHeap \in [{1} -> Queries]
    /\ xpc = "idle"
    \* the caller's connection: open, without a deadline, not dialed by
    \* this call, and no goroutine of this call watches the context
    /\ xConn = NoConn
    /\ xWatch = "none"
    /\ xMsg = <<>>
    /\ xWire = <<>>
    /\ xLog = <<>>
    /\ xIds = <<>>
    /\ xRespv = <<>>
    /\ xRet = NoXRet
    /\ xQuery0 = xHeap[1]
    /\ xReads = <<>>
    /\ xHooks \in [query : HookModes, response : HookModes]
    /\ xHookLog = <<>>
    /\ xHTTP = <<>>
    /\ xWrites = <<>>
    \* the Resolver, the Dialer and the response functions are not used
    /\ nTransports = 0
    /\ ctxErr = "nil"
    /\ op = "none"
    /\ pc = "off"
    /\ task = [g \in Tasks |-> IdleTask]
    /\ ach = <<>>
    /\ aaaach = <<>>
    /\ wg = 0
    /\ ret = NoRet
    /\ entryCtx = "nil"
    /\ finished = <<>>
    /\ timeout = 0
    /\ ctxDeadline = NoDeadline
    /\ dNetwork = "tcp"
    /\ dAddress = <<>>
    /\ dpc = "off"
    /\ dPort = <<>>
    /\ dAddrs = <<>>
    /\ dIdx = 0
    /\ dErrv = <<>>
    /\ dRet = [conn |-> NilConn, err |-> NilErr]
    /\ dLookups = <<>>
    /\ dDials = <<>>
    /\ dOuts = <<>>
    /\ dLookupOuts = <<>>
    /\ rQuery = <<>>
    /\ rResp = <<>>
    /\ rpc = "off"
    /\ rOut = <<>>
    /\ wIn = <<>>
    /\ wOut = <<>>
    /\ wpc = "off"

\* The caller invokes ExchangeWithConn: SendQuery sets the deadline, builds
\* the query message and calls Write.
XWithConnCall ==
    /\ UNCHANGED nonExchangeVars
    /\ xpc = "idle"
    /\ LET d == setDeadline(xCtx)
           conn1 == [xConn EXCEPT !.deadline = d]
           m == mutateQuery(xKind, xHeap, 0)
           built == NewMsg(m.heap[m.ptr])
           log1 == xLog \o SetDeadlineOps(xKind, d)
       IN  /\ xHeap' = m.heap
           /\ IF built.err # NilErr
                 THEN /\ XReturn(NilResponse, built.err,
                                 ClearedConn(xKind, conn1), xDctx,
                                 log1 \o ClearDeadlineOps(xKind, d))
                      /\ UNCHANGED <<xMsg, xWire, xHookLog>>
                 ELSE LET obs == observeRaw("query", xHooks.query, built.msg)
                      IN  /\ xpc' = "writing"
                          /\ xMsg' = built.msg
                          /\ xHookLog' = xHookLog \o obs.calls
                          /\ xWire' = Append(xWire, obs.raw)
                          /\ xConn' = conn1
                          /\ xLog' = Append(log1, Op("Write", "conn", 0))
                          /\ UNCHANGED <<xRet, xDctx>>
    /\ UNCHANGED <<xKind, xCtx, xWatch, xIds, xRespv, xQuery0, xReads, xHooks,
                   xHTTP, xWrites>>

NextWithConn ==
    \/ XWithConnCall
    \/ \E ok \in BOOLEAN : XWriteReturns(ok)
    \/ \E e \in {ErrIO, ErrOSDeadlineExceeded} : XReadFails(e)
    \/ \E dgram \in Arrivals : XReadReturns(dgram)
    \/ XCancelCtx
    \/ XDeadlineExpires

SpecWithConn == InitWithConn /\ [][NextWithConn]_vars

(***************************************************************************)
(* The response model's functions applied to the query and response        *)
(* messages below.                                                         *)
(***************************************************************************)
\* The questions of the messages: the one asked ("w", A, IN), and the same
\* with the name in upper case, another name, another type, another class.
Question0 == [Name |-> QName, Qtype |-> TypeA, Qclass |-> ClassINET]

Questions ==
    {Question0,
     [Question0 EXCEPT !.Name = <<87>>],
     [Question0 EXCEPT !.Name = TName],
     [Question0 EXCEPT !.Qtype = TypeAAAA],
     [Question0 EXCEPT !.Qclass = ClassCHAOS]}

\* Question sections with no, one or two questions.
QuestionSections ==
    {<<>>} \cup {<<q>> : q \in Questions} \cup {<<Question0, Question0>>}

QueryMsgs ==
    {[Id |-> 1, Question |-> qs] :
         qs \in {<<>>, <<Question0>>, <<Question0, Question0>>}}

AnswerSections ==
    {<<>>,
     <<RRA(QName, "192.0.2.1")>>,
     <<RRA(TName, "192.0.2.2")>>,
     <<RRCNAME(QName, TName), RRA(TName, "192.0.2.2")>>}

Rcodes == {RcodeSuccess, RcodeServerFailure, RcodeNameError, RcodeRefused}

ResponseMsgs ==
    [Response : BOOLEAN, Id : {1, 2}, Question : QuestionSections,
     Rcode : Rcodes, Authoritative : BOOLEAN, RecursionAvailable : BOOLEAN,
     Answer : AnswerSections]

InitResponse ==
    /\ rQuery \in QueryMsgs
    /\ rResp \in ResponseMsgs
    /\ rpc = "ready"
    /\ rOut = [fn |-> "none", err |-> NilErr, resp |-> NilResponse]
    /\ wIn = <<>>
    /\ wOut = <<>>
    /\ wpc = "off"
    \* the Resolver, the Dialer and the transports are not used
    /\ nTransports = 0
    /\ ctxErr = "nil"
    /\ op = "none"
    /\ pc = "off"
    /\ task = [g \in Tasks |-> IdleTask]
    /\ ach = <<>>
    /\ aaaach = <<>>
    /\ wg = 0
    /\ ret = NoRet
    /\ entryCtx = "nil"
    /\ finished = <<>>
    /\ timeout = 0
    /\ ctxDeadline = NoDeadline
    /\ dNetwork = "tcp"
    /\ dAddress = <<>>
    /\ dpc = "off"
    /\ dPort = <<>>
    /\ dAddrs = <<>>
    /\ dIdx = 0
    /\ dErrv = <<>>
    /\ dRet = [conn |-> NilConn, err |-> NilErr]
    /\ dLookups = <<>>
    /\ dDials = <<>>
    /\ dOuts = <<>>
    /\ dLookupOuts = <<>>
    /\ xKind = "none"
    /\ xCtx = [deadline |-> 0, err |-> "nil"]
    /\ xDctx = [deadline |-> 0, err |-> "nil"]
    /\ xHeap = <<>>
    /\ xpc = "off"
    /\ xConn = NoConn
    /\ xWatch = "none"
    /\ xMsg = <<>>
    /\ xWire = <<>>
    /\ xLog = <<>>
    /\ xIds = <<>>
    /\ xRespv = <<>>
    /\ xRet = NoXRet
    /\ xQuery0 = <<>>
    /\ xReads = <<>>
    /\ xHooks = [query |-> "nil", response |-> "nil"]
    /\ xHookLog = <<>>
    /\ xHTTP = <<>>
    /\ xWrites = <<>>

\* responseValidateQueryResp(query, resp) is called.
ApplyValidate ==
    /\ UNCHANGED nonResponseVars
    /\ rpc = "ready"
    /\ rpc' = "done"
    /\ rOut' = [fn |-> "validate",
                err |-> responseValidateQueryResp(rQuery, rResp),
                resp |-> NilResponse]
    /\ UNCHANGED <<rQuery, rResp>>

\* responseRcodeToError(resp) is called.
ApplyRcodeToError ==
    /\ UNCHANGED nonResponseVars
    /\ rpc = "ready"
    /\ rpc' = "done"
    /\ rOut' = [fn |-> "rcode",
                err |-> responseRcodeToError(rResp),
                resp |-> NilResponse]
    /\ UNCHANGED <<rQuery, rResp>>

\* NewResponse(query, resp) is called.
ApplyNewResponse ==
    /\ UNCHANGED nonResponseVars
    /\ rpc = "ready"
    /\ rpc' = "done"
    /\ rOut' = [fn |-> "new",
                err |-> NewResponse(rQuery, rResp).err,
                resp |-> NewResponse(rQuery, rResp).resp]
    /\ UNCHANGED <<rQuery, rResp>>

NextResponse ==
    \/ ApplyValidate
    \/ ApplyRcodeToError
    \/ ApplyNewResponse

(***************************************************************************)
(* responseGetValidAnswers and NewResponse applied to the answer sections  *)
(* below: every sequence of at most MaxAnswers of the records AnswerRRs,   *)
(* in a response that answers the query.                                   *)
(***************************************************************************)
MaxAnswers == 3

\* The name the CNAME of TName points to ("f").
FName == <<102>>

\* The records of the answer sections: the CNAMEs w -> e and e -> f, the
\* first also with its owner in upper case; A records owned by w, e and f;
\* an A record of f in another class; an A record owned by "E".
AnswerRRs ==
    {RRCNAME(QName, TName),
     RRCNAME(TName, FName),
     RRCNAME(<<87>>, TName),
     RRA(QName, "192.0.2.1"),
     RRA(TName, "192.0.2.2"),
     RRA(FName, "192.0.2.3"),
     [RRA(FName, "192.0.2.3") EXCEPT !.Class = ClassCHAOS],
     RRA(<<69>>, "192.0.2.4")}

AnswerSeqs ==
    UNION {[1..n -> AnswerRRs] : n \in 0..MaxAnswers}

InitAnswers ==
    /\ \E q0 \in {Question0, [Question0 EXCEPT !.Qclass = ClassCHAOS]} :
         /\ rQuery = [Id |-> 1, Question |-> <<q0>>]
         /\ rResp \in
                [Response : {TRUE}, Id : {1}, Question : {<<q0>>},
                 Rcode : {RcodeSuccess, RcodeNameError},
                 Authoritative : BOOLEAN, RecursionAvailable : {FALSE},
                 Answer : AnswerSeqs]
    /\ rpc = "ready"
    /\ rOut = [fn |-> "none", err |-> NilErr, resp |-> NilResponse]
    /\ wIn = <<>>
    /\ wOut = <<>>
    /\ wpc = "off"
    \* the Resolver, the Dialer and the transports are not used
    /\ nTransports = 0
    /\ ctxErr = "nil"
    /\ op = "none"
    /\ pc = "off"
    /\ task = [g \in Tasks |-> IdleTask]
    /\ ach = <<>>
    /\ aaaach = <<>>
    /\ wg = 0
    /\ ret = NoRet
    /\ entryCtx = "nil"
    /\ finished = <<>>
    /\ timeout = 0
    /\ ctxDeadline = NoDeadline
    /\ dNetwork = "tcp"
    /\ dAddress = <<>>
    /\ dpc = "off"
    /\ dPort = <<>>
    /\ dAddrs = <<>>
    /\ dIdx = 0
    /\ dErrv = <<>>
    /\ dRet = [conn |-> NilConn, err |-> NilErr]
    /\ dLookups = <<>>
    /\ dDials = <<>>
    /\ dOuts = <<>>
    /\ dLookupOuts = <<>>
    /\ xKind = "none"
    /\ xCtx = [deadline |-> 0, err |-> "nil"]
    /\ xDctx = [deadline |-> 0, err |-> "nil"]
    /\ xHeap = <<>>
    /\ xpc = "off"
    /\ xConn = NoConn
    /\ xWatch = "none"
    /\ xMsg = <<>>
    /\ xWire = <<>>
    /\ xLog = <<>>
    /\ xIds = <<>>
    /\ xRespv = <<>>
    /\ xRet = NoXRet
    /\ xQuery0 = <<>>
    /\ xReads = <<>>
    /\ xHooks = [query |-> "nil", response |-> "nil"]
    /\ xHookLog = <<>>
    /\ xHTTP = <<>>
    /\ xWrites = <<>>

\* responseGetValidAnswers(q0, resp) is called with the query's question.
ApplyGetValidAnswers ==
    /\ UNCHANGED nonResponseVars
    /\ rpc = "ready"
    /\ Len(rQuery.Question) = 1
    /\ rpc' = "done"
    /\ rOut' = [fn |-> "answers",
                err |-> responseGetValidAnswers(rQuery.Question[1], rResp).err,
                resp |-> NilResponse,
                rrs |-> responseGetValidAnswers(rQuery.Question[1], rResp).rrs]
    /\ UNCHANGED <<rQuery, rResp>>

NextAnswers ==
    \/ ApplyGetValidAnswers
    \/ ApplyNewResponse

(***************************************************************************)
(* The block-length padding of Query.NewMsg, applied to the message        *)
(* lengths below.                                                          *)
(***************************************************************************)
MaxMsgLen == 520

\* What msg.Len() returns before the padding option is added: every length
\* up to MaxMsgLen, and lengths around 2^16, where the conversion to uint16
\* truncates.
MsgLens == (0..MaxMsgLen) \cup {65531, 65532, 65533, 65660}

desiredSize == 128

\* The conversion of an int to uint16, and the result of an operation on
\* uint16 values.
Uint16(n) == n % 65536

\* The same on signed integers, where the result of % has the sign of the
\* dividend.
paddingRemainderSigned(msgLen) ==
    LET d == desiredSize - (msgLen + 4)
    IN  IF d >= 0 THEN d % desiredSize ELSE 0 - ((0 - d) % desiredSize)

\* remainder := (desiredSize - uint16(msg.Len()+4)) % desiredSize
paddingRemainder(msgLen) ==
    Uint16(desiredSize - Uint16(msgLen + 4)) % desiredSize

InitPadding ==
    /\ wIn \in [msgLen : MsgLens]
    /\ wpc = "ready"
    /\ wOut = <<>>
    \* the Resolver, the Dialer, the transports and the response model are
    \* not used
    /\ nTransports = 0
    /\ ctxErr = "nil"
    /\ op = "none"
    /\ pc = "off"
    /\ task = [g \in Tasks |-> IdleTask]
    /\ ach = <<>>
    /\ aaaach = <<>>
    /\ wg = 0
    /\ ret = NoRet
    /\ entryCtx = "nil"
    /\ finished = <<>>
    /\ timeout = 0
    /\ ctxDeadline = NoDeadline
    /\ dNetwork = "tcp"
    /\ dAddress = <<>>
    /\ dpc = "off"
    /\ dPort = <<>>
    /\ dAddrs = <<>>
    /\ dIdx = 0
    /\ dErrv = <<>>
    /\ dRet = [conn |-> NilConn, err |-> NilErr]
    /\ dLookups = <<>>
    /\ dDials = <<>>
    /\ dOuts = <<>>
    /\ dLookupOuts = <<>>
    /\ xKind = "none"
    /\ xCtx = [deadline |-> 0, err |-> "nil"]
    /\ xDctx = [deadline |-> 0, err |-> "nil"]
    /\ xHeap = <<>>
    /\ xpc = "off"
    /\ xConn = NoConn
    /\ xWatch = "none"
    /\ xMsg = <<>>
    /\ xWire = <<>>
    /\ xLog = <<>>
    /\ xIds = <<>>
    /\ xRespv = <<>>
    /\ xRet = NoXRet
    /\ xQuery0 = <<>>
    /\ xReads = <<>>
    /\ xHooks = [query |-> "nil", response |-> "nil"]
    /\ xHookLog = <<>>
    /\ xHTTP = <<>>
    /\ xWrites = <<>>
    /\ rQuery = <<>>
    /\ rResp = <<>>
    /\ rpc = "off"
    /\ rOut = <<>>

\* NewMsg adds the padding option: 4 bytes of option header and remainder
\* bytes of padding.
ApplyPadding ==
    /\ UNCHANGED nonWireVars
    /\ wpc = "ready"
    /\ wpc' = "done"
    /\ wOut' = [remainder |-> paddingRemainder(wIn.msgLen),
                msgLen |-> wIn.msgLen + 4 + paddingRemainder(wIn.msgLen)]
    /\ UNCHANGED wIn

NextPadding == ApplyPadding

SpecPadding == InitPadding /\ [][NextPadding]_vars

(***************************************************************************)
(* newStreamMsgFrame applied to the messages below, and the frame read     *)
(* back the way the exchanges over a stream read the response.             *)
(***************************************************************************)
MaxRawMsgLen == 60

MaxUint16 == 65535

\* len(rawMsg): every length up to MaxRawMsgLen, and lengths around 2^8 and
\* 2^16.
RawMsgLens ==
    (0..MaxRawMsgLen) \cup {255, 256, 257, 4660, 65535, 65536, 65537}

\* A message of n bytes.
RawMsg(n, seed) == [i \in 1..n |-> (i * seed) % 256]

\* The conversion of an int to byte.
Byte(n) == n % 256

newStreamMsgFrameLittleEndian(rawMsg) ==
    IF ~(Len(rawMsg) <= MaxUint16) THEN [panic |-> TRUE, frame |-> <<>>]
    ELSE [panic |-> FALSE,
          frame |-> <<Byte(Len(rawMsg))>>
                        \o <<Byte(Len(rawMsg) \div 256)>> \o rawMsg]

\* newStreamMsgFrame: [panic, frame]; runtimex.Assert panics when the
\* message is longer than MaxUint16.  len(rawMsg) >> 8 is the division by
\* 256.
newStreamMsgFrame(rawMsg) ==
    IF ~(Len(rawMsg) <= MaxUint16) THEN [panic |-> TRUE, frame |-> <<>>]
    ELSE [panic |-> FALSE,
          frame |-> <<Byte(Len(rawMsg) \div 256)>>
                        \o <<Byte(Len(rawMsg))>> \o rawMsg]

\* The read side: the two bytes of the header, then length bytes;
\* int(header[0])<<8 | int(header[1]) is header[0] * 256 + header[1], the
\* two operands of | having no bit in common.
readStreamMsgFrame(stream) ==
    LET header == SubSeq(stream, 1, 2)
        length == header[1] * 256 + header[2]
    IN  [length |-> length, rawResp |-> SubSeq(stream, 3, 2 + length)]

InitFrame ==
    /\ wIn \in {[rawMsg |-> RawMsg(n, seed)] :
                    n \in RawMsgLens, seed \in {1, 37}}
    /\ wpc = "ready"
    /\ wOut = <<>>
    \* the Resolver, the Dialer, the transports and the response model are
    \* not used
    /\ nTransports = 0
    /\ ctxErr = "nil"
    /\ op = "none"
    /\ pc = "off"
    /\ task = [g \in Tasks |-> IdleTask]
    /\ ach = <<>>
    /\ aaaach = <<>>
    /\ wg = 0
    /\ ret = NoRet
    /\ entryCtx = "nil"
    /\ finished = <<>>
    /\ timeout = 0
    /\ ctxDeadline = NoDeadline
    /\ dNetwork = "tcp"
    /\ dAddress = <<>>
    /\ dpc = "off"
    /\ dPort = <<>>
    /\ dAddrs = <<>>
    /\ dIdx = 0
    /\ dErrv = <<>>
    /\ dRet = [conn |-> NilConn, err |-> NilErr]
    /\ dLookups = <<>>
    /\ dDials = <<>>
    /\ dOuts = <<>>
    /\ dLookupOuts = <<>>
    /\ xKind = "none"
    /\ xCtx = [deadline |-> 0, err |-> "nil"]
    /\ xDctx = [deadline |-> 0, err |-> "nil"]
    /\ xHeap = <<>>
    /\ xpc = "off"
    /\ xConn = NoConn
    /\ xWatch = "none"
    /\ xMsg = <<>>
    /\ xWire = <<>>
    /\ xLog = <<>>
    /\ xIds = <<>>
    /\ xRespv = <<>>
    /\ xRet = NoXRet
    /\ xQuery0 = <<>>
    /\ xReads = <<>>
    /\ xHooks = [query |-> "nil", response |-> "nil"]
    /\ xHookLog = <<>>
    /\ xHTTP = <<>>
    /\ xWrites = <<>>
    /\ rQuery = <<>>
    /\ rResp = <<>>
    /\ rpc = "off"
    /\ rOut = <<>>

\* newStreamMsgFrame(rawMsg) is called.
ApplyNewStreamMsgFrame ==
    /\ UNCHANGED nonWireVars
    /\ wpc = "ready"
    /\ wpc' = IF newStreamMsgFrame(wIn.rawMsg).panic THEN "panic"
              ELSE "framed"
    /\ wOut' = [frame |-> newStreamMsgFrame(wIn.rawMsg).frame,
                length |-> 0, rawResp |-> <<>>]
    /\ UNCHANGED wIn

\* The frame is read from a stream that delivers it.
ApplyReadStreamMsgFrame ==
    /\ UNCHANGED nonWireVars
    /\ wpc = "framed"
    /\ wpc' = "done"
    /\ wOut' = [wOut EXCEPT
                    !.length = readStreamMsgFrame(wOut.frame).length,
                    !.rawResp = readStreamMsgFrame(wOut.frame).rawResp]
    /\ UNCHANGED wIn

NextFrame ==
    \/ ApplyNewStreamMsgFrame
    \/ ApplyReadStreamMsgFrame

SpecFrame == InitFrame /\ [][NextFrame]_vars

SpecAnswers == InitAnswers /\ [][NextAnswers]_vars

SpecResponse == InitResponse /\ [][NextResponse]_vars

SpecResolver == InitResolver /\ [][NextResolver]_vars

SpecDialer == InitDialer /\ [][NextDialer]_vars

(***************************************************************************)
(* Properties of the Resolver.                                             *)
(***************************************************************************)
\* The sub-lookups of the method that was called.
Running == TasksOf(op)

\* Sub-lookup g went through lookup's loop (it was not turned away for the
\* lack of transports) and returned.
AllFailed(g) ==
    /\ task[g].pc = "returned"
    /\ Len(task[g].outs) = nTransports
    /\ nTransports >= 1
    /\ \A j \in 1..Len(task[g].outs) : task[g].outs[j].err # NilErr

\* C1: lookup tries the transports one at a time in list order: the
\* Exchange calls made so far are those of transports 1, 2, ..., k in that
\* order; all of them but the k-th have returned, with an error, and the
\* k-th is the only one that may be in flight; once an Exchange returned
\* without error no Exchange is in flight, none is started later, and what
\* the Lookup method returns is the projection of that very response.
C1_SequentialInOrder ==
    \A g \in Tasks :
        LET t == task[g]
            k == Len(t.calls)
        IN  /\ t.calls = [j \in 1..k |-> j]
            /\ k <= nTransports
            /\ IF t.pc = "exchanging" THEN Len(t.outs) = k - 1
                                      ELSE Len(t.outs) = k
            /\ \A j \in 1..Len(t.outs) :
                   j < k => t.outs[j].err # NilErr
            /\ \A j \in 1..Len(t.outs) :
                   t.outs[j].err = NilErr =>
                       /\ j = k
                       /\ t.pc \in {"returned", "panicked"}
                       /\ t.pc = "returned" =>
                              /\ t.val = Project(g, t.outs[j].resp).val
                              /\ t.err = Project(g, t.outs[j].resp).err

\* C1's case: the first transport failed, the second was then tried and
\* succeeded, and the sub-lookup returned.
C1_Witness ==
    \E g \in Tasks :
        /\ task[g].pc = "returned"
        /\ task[g].calls = <<1, 2>>
        /\ task[g].outs[1].err # NilErr
        /\ task[g].outs[2].err = NilErr
        /\ task[g].err = NilErr

\* C2: when the Exchange of every configured transport failed, the lookup
\* returns no value and one joined error that holds exactly the
\* per-transport errors, in the order the transports were tried, each of
\* them still found by errors.Is.
C2_AllErrorsJoined ==
    \A g \in Tasks :
        AllFailed(g) =>
            LET t == task[g]
            IN  /\ t.val = <<>>
                /\ t.err.kind = "join"
                /\ t.err.errs = [j \in 1..nTransports |-> t.outs[j].err]
                /\ \A j \in 1..nTransports : ErrorsIs(t.err, t.outs[j].err)

\* C2's case: two transports failed with different errors.
C2_Witness ==
    \E g \in Tasks :
        /\ AllFailed(g)
        /\ nTransports = 2
        /\ task[g].outs[1].err = ErrIO
        /\ task[g].outs[2].err = ErrNoName

C4_CanceledContextSurfaces ==
    (op = "LookupHost" /\ entryCtx = "Canceled" /\ nTransports >= 1) =>
        /\ pc # "panic"
        /\ pc = "done" =>
               /\ ret.addrs = <<>>
               /\ ErrorsIs(ret.err, ErrCanceled)

\* C5: the list LookupHost returns is the list LookupA returned followed by
\* the list LookupAAAA returned, whichever of the two finished first.
C5_AThenAAAA ==
    (op = "LookupHost" /\ pc = "done" /\ ret.err = NilErr) =>
        ret.addrs = task["A"].val \o task["AAAA"].val

\* C5's case: the AAAA sub-lookup finished first, both found addresses, and
\* LookupHost has returned.
C5_Witness ==
    /\ op = "LookupHost"
    /\ pc = "done"
    /\ finished = <<"AAAA", "A">>
    /\ task["A"].val # <<>>
    /\ task["AAAA"].val # <<>>
    /\ ret.err = NilErr

\* C6: LookupHost returns the join of both sub-lookup errors (wrapping
\* each) and no address exactly when both sub-lookups failed; otherwise it
\* returns a nil error and a non-empty list; it never returns an empty list
\* with a nil error.
C6_HostErrorIffBothFailed ==
    (op = "LookupHost" /\ pc = "done") =>
        LET ea == task["A"].err
            eb == task["AAAA"].err
        IN  /\ (ea # NilErr /\ eb # NilErr) <=> ret.err # NilErr
            /\ ret.err # NilErr =>
                   /\ ret.err = Join(<<ea, eb>>)
                   /\ ErrorsIs(ret.err, ea)
                   /\ ErrorsIs(ret.err, eb)
                   /\ ret.addrs = <<>>
            /\ ret.err = NilErr => ret.addrs # <<>>
            /\ ~(ret.addrs = <<>> /\ ret.err = NilErr)

\* C6's case: the A sub-lookup failed, the AAAA sub-lookup succeeded, and
\* LookupHost has returned.
C6_Witness ==
    /\ op = "LookupHost"
    /\ pc = "done"
    /\ task["A"].err # NilErr
    /\ task["AAAA"].err = NilErr
    /\ ret.err = NilErr

\* The last Exchange of the CNAME sub-lookup returned a validated response
\* without any CNAME record among its valid answers.
CNAMELessResponse ==
    LET t == task["CNAME"]
    IN  /\ t.outs # <<>>
        /\ t.pc # "exchanging"
        /\ t.outs[Len(t.outs)].err = NilErr
        /\ t.outs[Len(t.outs)].resp.ok
        /\ \A j \in 1..Len(t.outs[Len(t.outs)].resp.ValidRRs) :
               t.outs[Len(t.outs)].resp.ValidRRs[j].Rrtype # TypeCNAME

\* C7: after a validated response without CNAME records LookupCNAME does
\* not trip its assertion: it returns the empty name and an error that
\* satisfies ErrNoData.
C7_CNAMEWithoutCNAME ==
    (op = "LookupCNAME" /\ CNAMELessResponse) =>
        /\ pc = "done"
        /\ task["CNAME"].pc = "returned"
        /\ ret.cname = <<>>
        /\ ErrorsIs(ret.err, ErrNoData)

\* C7's case: the reply held only an A record.
C7_Witness ==
    /\ op = "LookupCNAME"
    /\ CNAMELessResponse
    /\ task["CNAME"].outs[Len(task["CNAME"].outs)].msg
           = ReplyOnlyA(QueryMsg("CNAME"))
    /\ pc = "done"

\* Every Exchange of sub-lookup g ended with a well-formed reply of the
\* server carrying the name-error result code, and there was one.
OnlyNXDOMAIN(g) ==
    /\ task[g].outs # <<>>
    /\ \A j \in 1..Len(task[g].outs) :
           /\ ~task[g].outs[j].io
           /\ task[g].outs[j].msg.Rcode = RcodeNameError

\* C8: when the server answered every query of a lookup method with
\* NXDOMAIN, the method returns an empty result and an error that satisfies
\* ErrNoName, through the join of lookup and the join of LookupHost.
C8_NXDOMAIN ==
    (pc = "done" /\ \A g \in Running : OnlyNXDOMAIN(g)) =>
        /\ ret.addrs = <<>>
        /\ ret.cname = <<>>
        /\ ret.err # NilErr
        /\ ErrorsIs(ret.err, ErrNoName)

\* C8's case: LookupHost has returned after NXDOMAIN replies to both of its
\* sub-lookups, so that the error went through both joins.
C8_Witness ==
    /\ op = "LookupHost"
    /\ pc = "done"
    /\ \A g \in Running : OnlyNXDOMAIN(g)
    /\ ret.err.kind = "join"
    /\ ret.err.errs[1].kind = "join"

(***************************************************************************)
(* Properties of the Dialer.                                               *)
(***************************************************************************)
\* C9: when the host of the address is a literal IP address, the resolver
\* is never called and the only call of the underlying dialer is for the
\* requested network and an address made of that very host and port.
C9_IPLiteralShortCircuit ==
    LET sp == SplitHostPort(dAddress)
    IN  (sp.err = NilErr /\ ParseIP(sp.host)) =>
            /\ dLookups = <<>>
            /\ dpc \in {"idle", "dialing", "done"}
            /\ Len(dDials) = (IF dpc = "idle" THEN 0 ELSE 1)
            /\ \A j \in 1..Len(dDials) :
                   /\ dDials[j].network = dNetwork
                   /\ SplitHostPort(dDials[j].address)
                          = [host |-> sp.host, port |-> sp.port,
                             err |-> NilErr]

\* C9's case: a bracketed IPv6 literal has been dialed as given.
C9_Witness ==
    /\ dAddress = <<"[", ":", ":", "1", "]", ":", "80">>
    /\ dpc = "done"
    /\ dLookups = <<>>
    /\ dDials = <<[network |-> dNetwork, address |-> dAddress]>>

\* C10: the connect attempts made so far are those for the first k
\* addresses lookupHost returned, in that order, each on the requested
\* network and port; all of them but the k-th have returned, with an error,
\* and the k-th is the only one that may be in flight; once an attempt
\* succeeded DialContext has returned its connection and no attempt follows.
C10_SequentialDial ==
    LET k == Len(dDials)
    IN  /\ k <= Len(dAddrs)
        /\ \A j \in 1..k :
               dDials[j] = [network |-> dNetwork,
                            address |-> JoinHostPort(dAddrs[j], dPort)]
        /\ Len(dOuts) = (IF dpc = "dialing" THEN k - 1 ELSE k)
        /\ \A j \in 1..Len(dOuts) : j < k => dOuts[j].err # NilErr
        /\ \A j \in 1..Len(dOuts) :
               dOuts[j].err = NilErr =>
                   /\ j = k
                   /\ dpc = "done"
                   /\ dRet = [conn |-> dOuts[j].conn, err |-> NilErr]
                   /\ dRet.conn.ok
                   /\ dRet.conn.address = dDials[j].address

\* C10's case: the resolver returned two different addresses, the attempt
\* to the first failed and the attempt to the second succeeded.
C10_Witness ==
    /\ dpc = "done"
    /\ Len(dAddrs) = 2
    /\ dAddrs[1] # dAddrs[2]
    /\ Len(dDials) = 2
    /\ dOuts[1].err # NilErr
    /\ dOuts[2].err = NilErr
    /\ dRet.conn.ok

\* C11: when DialContext returns after every connect attempt failed, there
\* was one attempt per address lookupHost returned, DialContext returns no
\* connection, and its error is the join of the errors of the attempts, in
\* the order of the attempts, each of them still found by errors.Is.
C11_AllDialErrorsJoined ==
    (/\ dpc = "done"
     /\ dOuts # <<>>
     /\ \A j \in 1..Len(dOuts) : dOuts[j].err # NilErr) =>
        /\ Len(dOuts) = Len(dAddrs)
        /\ dRet.conn = NilConn
        /\ dRet.err.kind = "join"
        /\ dRet.err.errs = [j \in 1..Len(dAddrs) |-> dOuts[j].err]
        /\ \A j \in 1..Len(dOuts) : ErrorsIs(dRet.err, dOuts[j].err)

\* C11's case: the resolver returned two addresses, both attempts failed,
\* each with its own error, and DialContext has returned.
C11_Witness ==
    /\ dpc = "done"
    /\ Len(dAddrs) = 2
    /\ Len(dOuts) = 2
    /\ dOuts[1].err = ErrDial(1)
    /\ dOuts[2].err = ErrDial(2)
    /\ dRet.err # NilErr

\* C12: an address net.SplitHostPort rejects makes DialContext return that
\* error without calling the resolver or the underlying dialer; a failure
\* of the resolver makes DialContext return the resolver's error itself,
\* without calling the underlying dialer.
C12_SplitOrLookupFailure ==
    /\ SplitHostPort(dAddress).err # NilErr =>
           /\ dLookups = <<>>
           /\ dLookupOuts = <<>>
           /\ dDials = <<>>
           /\ dpc \in {"idle", "done"}
           /\ dpc = "done" =>
                  dRet = [conn |-> NilConn,
                          err |-> SplitHostPort(dAddress).err]
    /\ \A j \in 1..Len(dLookupOuts) :
           dLookupOuts[j].err # NilErr =>
               /\ dDials = <<>>
               /\ dpc = "done"
               /\ dRet = [conn |-> NilConn, err |-> dLookupOuts[j].err]

\* C12's case, the failure of the resolver: DialContext has returned after
\* the resolver was asked for a host name and failed.
C12_Witness ==
    /\ dpc = "done"
    /\ dLookups = <<<<"example.com">>>>
    /\ dLookupOuts = <<[addrs |-> <<>>, err |-> ErrLookup]>>
    /\ dRet.err = ErrLookup

(***************************************************************************)
(* Properties of the transports.                                           *)
(***************************************************************************)
\* The calls of the log with the given name on the given object.
OpsOf(name, on) ==
    SelectSeq(xLog, LAMBDA o : o.op = name /\ o.on = on)

\* C13: Exchange (UDP, stream, QUIC) closes the connection it dialed at
\* most once, and once it has returned after a successful dial, whatever
\* the exit path, the connection is eventually closed, by exactly one
\* call of Close.
C13_ConnectionClosedOnce ==
    /\ [](Len(OpsOf("Close", "conn")) <= 1)
    /\ [](xConn.closed <=> Len(OpsOf("Close", "conn")) = 1)
    /\ (xpc = "done" /\ xConn.dialed)
           ~> (xConn.closed /\ Len(OpsOf("Close", "conn")) = 1)

\* C13's case: a QUIC exchange returned a response and its connection was
\* closed afterwards.
C13_Witness ==
    /\ xKind = "quic"
    /\ xpc = "done"
    /\ xRet.err = NilErr
    /\ xCtx.err = "nil"
    /\ xConn.closed

DeadlineInForce(j, on) ==
    LET sets == {k \in 1..(j - 1) :
                    xLog[k].op = "SetDeadline" /\ xLog[k].on = on}
    IN  IF sets = {} THEN NoDeadline
        ELSE xLog[CHOOSE k \in sets : \A m \in sets : m <= k].d

C16_QueryNotModified ==
    xpc # "off" => xHeap[1] = xQuery0

\* C16's case: ExchangeAndCollectDuplicates returned after changing the id
\* and the max size of its clone.
C16_Witness ==
    /\ xKind = "udpdup"
    /\ xpc = "done"
    /\ Len(xHeap) = 2
    /\ xHeap[2].id # xHeap[1].id
    /\ xHeap[2].maxSize # xHeap[1].maxSize

\* C17 (as claimed): every query a UDP exchange writes carries an id the
\* transport drew from dns.Id() for this exchange, and advertises the UDP
\* max response size.
C17_FreshRandomId ==
    xKind \in {"udp", "udpdup", "dnsoverudp"} =>
        \A j \in 1..Len(xWire) :
            /\ xIds # <<>>
            /\ xWire[j].Id = xIds[Len(xIds)]
            /\ xWire[j].UDPSize = queryMaxResponseSizeUDP

\* C18: every query the QUIC and HTTPS transports send has id zero, asks
\* for DNSSEC, carries the padding option and advertises the TCP max
\* response size.
C18_DoQDoHQueryShape ==
    xKind \in {"quic", "https"} =>
        \A j \in 1..Len(xWire) :
            /\ xWire[j].Id = 0
            /\ xWire[j].Do
            /\ xWire[j].Padding
            /\ xWire[j].UDPSize = queryMaxResponseSizeTCP

\* C18's case: the caller's Query had id 7, no flag and another max size,
\* and the HTTPS transport has sent its query.
C18_Witness ==
    /\ xKind = "https"
    /\ xQuery0.id = 7
    /\ xQuery0.flags = 0
    /\ xQuery0.maxSize # queryMaxResponseSizeTCP
    /\ Len(xWire) = 1

(***************************************************************************)
(* Properties of the response model.                                       *)
(***************************************************************************)
\* Two bytes that are the same ASCII letter, case apart, or the same byte.
SameByteFold(a, b) ==
    \/ a = b
    \/ a \in 65..90 /\ b = a + 32
    \/ b \in 65..90 /\ a = b + 32

\* The response answers the query: the conditions of C19.
Answers(query, resp) ==
    /\ resp.Response
    /\ resp.Id = query.Id
    /\ Len(query.Question) = 1
    /\ Len(resp.Question) = 1
    /\ Len(resp.Question[1].Name) = Len(query.Question[1].Name)
    /\ \A i \in 1..Len(resp.Question[1].Name) :
           SameByteFold(resp.Question[1].Name[i], query.Question[1].Name[i])
    /\ resp.Question[1].Qclass = query.Question[1].Qclass
    /\ resp.Question[1].Qtype = query.Question[1].Qtype

\* C19 (as claimed): validation succeeds exactly when the response answers
\* the query; a failure is InvalidQuery when the query does not carry
\* exactly one question and InvalidResponse otherwise.
C19_ValidateAsClaimed ==
    (rpc = "done" /\ rOut.fn = "validate") =>
        /\ rOut.err = NilErr <=> Answers(rQuery, rResp)
        /\ rOut.err # NilErr =>
               rOut.err = (IF Len(rQuery.Question) # 1 THEN ErrInvalidQuery
                           ELSE ErrInvalidResponse)

\* C19 (amended): validation succeeds exactly when the response answers
\* the query; the checks run in order, so a failure is InvalidQuery exactly
\* when the response flag is set, the ids are equal and the query does not
\* carry exactly one question, and InvalidResponse in every other case.
C19_Validate ==
    (rpc = "done" /\ rOut.fn = "validate") =>
        /\ rOut.err = NilErr <=> Answers(rQuery, rResp)
        /\ rOut.err # NilErr =>
               rOut.err = (IF /\ rResp.Response
                              /\ rResp.Id = rQuery.Id
                              /\ Len(rQuery.Question) # 1
                              THEN ErrInvalidQuery
                              ELSE ErrInvalidResponse)

\* C19's case: a query without question and a message that is not a
\* response: the validation fails with InvalidResponse.
C19_Witness ==
    /\ rpc = "done"
    /\ rOut.fn = "validate"
    /\ rQuery.Question = <<>>
    /\ ~rResp.Response
    /\ rOut.err = ErrInvalidResponse

HasMatchingAnswerPath(q, resp) ==
    responseGetValidAnswers(q, resp).err = NilErr

\* C21 (as claimed): responseRcodeToError returns no error exactly when the
\* code is success and the response has an answer path matching the
\* question asked.
C21_NoErrorAsClaimed ==
    (rpc = "done" /\ rOut.fn = "rcode") =>
        (rOut.err = NilErr <=>
             /\ rResp.Rcode = RcodeSuccess
             /\ HasMatchingAnswerPath(Question0, rResp))

\* C21 (amended): responseRcodeToError returns no error exactly when the
\* code is success and the response is authoritative, or has recursion
\* available, or has at least one answer, matching or not; so a success
\* with a matching answer path gives no error, and not the converse.
C21_NoError ==
    (rpc = "done" /\ rOut.fn = "rcode") =>
        /\ rOut.err = NilErr <=>
               /\ rResp.Rcode = RcodeSuccess
               /\ \/ rResp.Authoritative
                  \/ rResp.RecursionAvailable
                  \/ Len(rResp.Answer) > 0
        /\ (/\ rResp.Rcode = RcodeSuccess
            /\ HasMatchingAnswerPath(Question0, rResp)) => rOut.err = NilErr

\* C21's case: an authoritative success without any answer was mapped to
\* no error.
C21_Witness ==
    /\ rpc = "done"
    /\ rOut.fn = "rcode"
    /\ rResp.Rcode = RcodeSuccess
    /\ rResp.Authoritative
    /\ rResp.Answer = <<>>
    /\ rOut.err = NilErr

(***************************************************************************)
(* Properties of the answer extraction.                                    *)
(***************************************************************************)
\* The greatest element of a non-empty set of numbers.
MaxOf(S) == CHOOSE m \in S : \A n \in S : n <= m

\* The positions of the CNAME records on the chain that starts at q0's
\* name: a CNAME of q0's class is on the chain when its owner is, case
\* apart, the target of the chain's last record before it, or q0's name
\* when there is none.
ChainPositions(q0, answers) ==
    CHOOSE S \in SUBSET (1..Len(answers)) :
        \A k \in 1..Len(answers) :
            k \in S <=>
                LET before == {j \in S : j < k}
                    current == IF before = {} THEN q0.Name
                               ELSE answers[MaxOf(before)].Target
                IN  /\ answers[k].Rrtype = TypeCNAME
                    /\ answers[k].Class = q0.Qclass
                    /\ Len(answers[k].Name) = Len(current)
                    /\ \A i \in 1..Len(current) :
                           SameByteFold(answers[k].Name[i], current[i])

\* The chain's final name.
ChainFinalName(q0, answers) ==
    LET S == ChainPositions(q0, answers)
    IN  IF S = {} THEN q0.Name ELSE answers[MaxOf(S)].Target

\* The records of a sequence at the positions in P, in order.
RECURSIVE RecordsAt(_, _, _)
RecordsAt(answers, P, k) ==
    IF k = 0 THEN <<>>
    ELSE RecordsAt(answers, P, k - 1)
             \o (IF k \in P THEN <<answers[k]>> ELSE <<>>)

\* The positions of the CNAMEs on the chain and of the records of q0's
\* class owned by the chain's final name.
ChainAndTerminalPositions(q0, answers) ==
    ChainPositions(q0, answers) \cup
        {k \in 1..Len(answers) :
             /\ answers[k].Name = ChainFinalName(q0, answers)
             /\ answers[k].Class = q0.Qclass}

\* The positions of the records of q0's class owned by q0's name or by the
\* owner or the target of a CNAME on the chain.
ValidNamePositions(q0, answers) ==
    LET S == ChainPositions(q0, answers)
        names == {q0.Name} \cup {answers[j].Name : j \in S}
                     \cup {answers[j].Target : j \in S}
    IN  {k \in 1..Len(answers) :
             answers[k].Name \in names /\ answers[k].Class = q0.Qclass}

\* C22 (as claimed): when the answers contain a CNAME chain that starts at
\* the question name, responseGetValidAnswers returns exactly the CNAMEs on
\* the chain and the records owned by the chain's final name, in the order
\* of the response, and nothing else.
C22_ChainAsClaimed ==
    (/\ rpc = "done"
     /\ rOut.fn = "answers"
     /\ ChainPositions(rQuery.Question[1], rResp.Answer) # {}) =>
        /\ rOut.err = NilErr
        /\ rOut.rrs =
               RecordsAt(rResp.Answer,
                   ChainAndTerminalPositions(rQuery.Question[1], rResp.Answer),
                   Len(rResp.Answer))

\* C22 (amended): responseGetValidAnswers returns, in the order of the
\* response, exactly the records of the question's class owned by the
\* question name or by the owner or the target of a CNAME on the chain:
\* the CNAMEs on the chain and the records of the final name are among
\* them, and so is every other record owned by a name on the chain.  With
\* no such record it fails with NoData.
C22_ExtractValidAnswers ==
    (rpc = "done" /\ rOut.fn = "answers") =>
        LET q0 == rQuery.Question[1]
            answers == rResp.Answer
            valid == ValidNamePositions(q0, answers)
        IN  /\ ChainAndTerminalPositions(q0, answers) \subseteq valid
            /\ rOut.rrs = RecordsAt(answers, valid, Len(answers))
            /\ rOut.err = (IF valid = {} THEN ErrNoData ELSE NilErr)
            /\ valid = ChainAndTerminalPositions(q0, answers) =>
                   rOut.rrs = RecordsAt(answers,
                                  ChainAndTerminalPositions(q0, answers),
                                  Len(answers))

\* C22's case: a chain of length two, w -> e -> f, followed by an address
\* of f: the three records are returned in order.
C22_Witness ==
    /\ rpc = "done"
    /\ rOut.fn = "answers"
    /\ rQuery.Question[1] = Question0
    /\ rResp.Answer = <<RRCNAME(QName, TName), RRCNAME(TName, FName),
                        RRA(FName, "192.0.2.3")>>
    /\ rOut.rrs = rResp.Answer
    /\ rOut.err = NilErr

\* The valid-name set: the question name and the owner and the target of
\* every CNAME on the chain.
ValidNameSet(q0, answers) ==
    LET S == ChainPositions(q0, answers)
    IN  {q0.Name} \cup {answers[j].Name : j \in S}
            \cup {answers[j].Target : j \in S}

\* s is made of records of t, in the order of t.
IsSubsequence(s, t) ==
    \E P \in SUBSET (1..Len(t)) : s = RecordsAt(t, P, Len(t))

C24_PaddingLength ==
    (wpc = "done" /\ "remainder" \in DOMAIN wOut) =>
        /\ 0 <= wOut.remainder
        /\ wOut.remainder < desiredSize
        /\ (wIn.msgLen + 4 + wOut.remainder) % desiredSize = 0
        /\ wOut.msgLen % desiredSize = 0

\* C24's case: a message of 200 bytes, longer than a block, is padded with
\* 52 bytes to 256.
C24_Witness ==
    /\ wpc = "done"
    /\ "remainder" \in DOMAIN wOut
    /\ wIn.msgLen = 200
    /\ wOut.remainder = 52
    /\ wOut.msgLen = 256

(***************************************************************************)
(* Properties of ExchangeAndCollectDuplicates.                             *)
(***************************************************************************)
\* C25: ExchangeAndCollectDuplicates terminates: once it reads it
\* eventually returns, whatever arrives; the context it derives always has
\* a deadline, the default one when the caller's context has none; and an
\* iteration of the collection loop moves neither that deadline nor the
\* one set on the connection.
C25_CollectTerminates ==
    /\ (xKind = "udpdup" /\ xpc = "reading") ~> (xpc = "done")
    /\ [](xKind = "udpdup" /\ xConn.dialed =>
              /\ xDctx.deadline # NoDeadline
              /\ xDctx.deadline <= defaultLongDeadline
              /\ xCtx.deadline = NoDeadline =>
                     xDctx.deadline = defaultLongDeadline)
    /\ [][(xKind = "udpdup" /\ xpc = "reading" /\ xpc' = "reading") =>
              /\ xDctx'.deadline = xDctx.deadline
              /\ xConn'.deadline = xConn.deadline]_vars

\* C25's case: under a context without deadline that nobody canceled, the
\* default timeout expired while datagrams were arriving, the connection
\* was closed and ExchangeAndCollectDuplicates returned.
C25_Witness ==
    /\ xKind = "udpdup"
    /\ xCtx = [deadline |-> NoDeadline, err |-> "nil"]
    /\ xDctx = [deadline |-> defaultLongDeadline, err |-> "DeadlineExceeded"]
    /\ xConn.closed
    /\ Len(OpsOf("Read", "conn")) >= 2
    /\ xpc = "done"

RECURSIVE ResponsesOf(_, _)
ResponsesOf(reads, queryMsg) ==
    IF reads = <<>> THEN <<>>
    ELSE LET last == reads[Len(reads)]
             rest == ResponsesOf(SubSeq(reads, 1, Len(reads) - 1), queryMsg)
         IN  IF /\ last.err = NilErr
                /\ last.dgram.unpack
                /\ NewResponse(queryMsg, last.dgram.msg).err = NilErr
                THEN Append(rest, NewResponse(queryMsg, last.dgram.msg).resp)
                ELSE rest

StreamOps ==
    SelectSeq(xLog, LAMBDA o : o.on = "stream"
                                   /\ o.op \in {"Write", "Close", "Read"})

\* The names of the operations of a log.
OpNames(log) == [i \in 1..Len(log) |-> log[i].op]

\* The Write of the QUIC exchange failed: Exchange returned after the Write
\* without issuing a read.
QUICWriteFailed ==
    /\ xKind = "quic"
    /\ xpc = "done"
    /\ OpsOf("Write", "stream") # <<>>
    /\ OpsOf("Read", "stream") = <<>>

\* C30 (as claimed): in a QUIC exchange the stream is written, then closed,
\* then read, no read being issued before the close; and no close is
\* issued when the write failed.
C30_OrderAsClaimed ==
    xKind = "quic" =>
        /\ \A j \in 1..Len(StreamOps) :
               StreamOps[j].op = "Read" =>
                   /\ j = 3
                   /\ OpNames(SubSeq(StreamOps, 1, 2)) = <<"Write", "Close">>
        /\ QUICWriteFailed => OpsOf("Close", "stream") = <<>>

\* C30 (amended): in a QUIC exchange the stream is written, then closed,
\* then read, no read being issued before the close; when the write
\* failed, that close and the read are not issued, and the stream is closed
\* all the same, once, by the deferred Close that runs when Exchange
\* returns (which closes it a second time after a read).
C30_QUICStreamOrder ==
    xKind = "quic" =>
        /\ \A j \in 1..Len(StreamOps) :
               StreamOps[j].op = "Read" =>
                   /\ j = 3
                   /\ OpNames(SubSeq(StreamOps, 1, 2)) = <<"Write", "Close">>
        /\ xpc = "reading" => OpNames(StreamOps) = <<"Write", "Close", "Read">>
        /\ QUICWriteFailed => OpNames(StreamOps) = <<"Write", "Close">>
        /\ (xpc = "done" /\ OpsOf("Read", "stream") # <<>>) =>
               OpNames(StreamOps) = <<"Write", "Close", "Read", "Close">>

\* C30's case: the write on the QUIC stream failed; Exchange returned the
\* error without reading, and the stream was closed on return.
C30_Witness ==
    /\ QUICWriteFailed
    /\ xRet.err = ErrIO
    /\ OpNames(StreamOps) = <<"Write", "Close">>
    /\ xLog[Len(xLog)] = Op("Close", "stream", 0)

\* The calls of one of the two hooks, in order.
HookCalls(hook) == SelectSeq(xHookLog, LAMBDA c : c.hook = hook)

\* The reads that returned a datagram, in order.
ReadsDone == SelectSeq(xReads, LAMBDA r : r.err = NilErr)

\* C29: for a message of n <= 65535 bytes the frame has n + 2 bytes, the
\* big-endian encoding of n in two bytes and then the message unchanged,
\* and reading it back gives n and the message; for a longer message
\* newStreamMsgFrame panics and produces no frame.
C29_StreamFrame ==
    ("frame" \in DOMAIN wOut /\ wpc # "ready") =>
        LET n == Len(wIn.rawMsg)
        IN  /\ wpc = "panic" <=> n > 65535
            /\ wpc = "panic" => wOut.frame = <<>>
            /\ wpc \in {"framed", "done"} =>
                   /\ Len(wOut.frame) = n + 2
                   /\ wOut.frame[1] \in 0..255
                   /\ wOut.frame[2] \in 0..255
                   /\ wOut.frame[1] * 256 + wOut.frame[2] = n
                   /\ \A i \in 1..n : wOut.frame[i + 2] = wIn.rawMsg[i]
            /\ wpc = "done" =>
                   /\ wOut.length = n
                   /\ wOut.rawResp = wIn.rawMsg

\* C29's case: a message of 4660 = 0x1234 bytes was framed with the header
\* 0x12 0x34 and read back.
C29_Witness ==
    /\ wpc = "done"
    /\ "frame" \in DOMAIN wOut
    /\ Len(wIn.rawMsg) = 4660
    /\ wOut.frame[1] = 18
    /\ wOut.frame[2] = 52
    /\ wOut.rawResp = wIn.rawMsg

\* C28: the raw-query hook receives the bytes handed to Write and the
\* raw-response hook the bytes Read returned; whatever a hook does to the
\* slice it received, the bytes sent are the packed query and the bytes
\* parsed are the ones read.
C28_HooksGetCopies ==
    xKind = "dnsoverudp" =>
        /\ xWire # <<>> => xWire[1] = xMsg
        /\ Len(HookCalls("query")) =
               (IF xHooks.query # "nil" THEN Len(xWire) ELSE 0)
        /\ \A i \in 1..Len(HookCalls("query")) :
               HookCalls("query")[i].seen = xWire[i]
        /\ Len(HookCalls("response")) =
               (IF xHooks.response # "nil" THEN Len(ReadsDone) ELSE 0)
        /\ \A i \in 1..Len(HookCalls("response")) :
               HookCalls("response")[i].seen = ReadsDone[i].dgram.msg
        /\ (xpc = "done" /\ ReadsDone # <<>>) =>
               xRet = [val |-> parseResponse(xMsg, ReadsDone[1].dgram).resp,
                       err |-> parseResponse(xMsg, ReadsDone[1].dgram).err]

\* C28's case: both hooks flipped the first byte of the slice they
\* received, and the exchange returned the response all the same.
C28_Witness ==
    /\ xKind = "dnsoverudp"
    /\ xHooks = [query |-> "mutate", response |-> "mutate"]
    /\ Len(xHookLog) = 2
    /\ xpc = "done"
    /\ xRet.err = NilErr
    /\ xRet.val.ok

(***************************************************************************)
(* Properties of the HTTPS exchange.                                       *)
(***************************************************************************)
\* C31: once the HTTP round trip returned a response, the HTTPS exchange
\* returns ErrServerMisbehaving and no Response, without unpacking a DNS
\* message (and without reading the body), when the status is not 200 or
\* the content type is not exactly application/dns-message; it returns
\* ErrServerMisbehaving without unpacking when the body cannot be read; and
\* it unpacks only a body it read from a 200 response of that content type.
C31_HTTPSServerMisbehaving ==
    (xKind = "https" /\ xpc = "done" /\ xHTTP # <<>> /\ xHTTP[1].ok) =>
        LET h == xHTTP[1]
            accepted ==
                h.status = 200 /\ h.ctype = "application/dns-message"
        IN  /\ ~accepted =>
                   /\ xRet.err = ErrServerMisbehaving
                   /\ ~xRet.val.ok
                   /\ ~h.read
                   /\ ~h.unpacked
            /\ (accepted /\ ~h.bodyok) =>
                   /\ xRet.err = ErrServerMisbehaving
                   /\ ~xRet.val.ok
                   /\ ~h.unpacked
            /\ h.unpacked <=> (accepted /\ h.bodyok)

\* A 200 response whose content type carries a parameter is refused.
C31_Witness ==
    /\ xKind = "https"
    /\ xpc = "done"
    /\ xHTTP # <<>>
    /\ xHTTP[1].ok
    /\ xHTTP[1].status = 200
    /\ xHTTP[1].ctype = "application/dns-message; charset=utf-8"
    /\ xHTTP[1].bodyok
    /\ xRet.err = ErrServerMisbehaving

(***************************************************************************)
(* Properties of the stream exchange's query.                              *)
(***************************************************************************)
\* C32: in the stream exchange, once the query was cloned and mutated, the
\* clone has the padding and DNSSEC-OK flags set when the connection is a
\* TLS connection, and exactly the caller's flags when it is a plain TCP
\* connection; in both cases its id is the one dns.Id() returned and its
\* max size is the TCP max size, and the message written carries the
\* padding option and the DO bit exactly as the clone's flags say.
C32_StreamFlagsIffTLS ==
    (xKind \in {"tcp", "tls"} /\ Len(xHeap) >= 2) =>
        LET clone == xHeap[2]
        IN  /\ xKind = "tls" =>
                   /\ HasFlag(clone.flags, queryFlagBlockLengthPadding)
                   /\ HasFlag(clone.flags, queryFlagDNSSec)
            /\ xKind = "tcp" => clone.flags = xQuery0.flags
            /\ Len(xIds) = 1
            /\ clone.id = xIds[1]
            /\ clone.maxSize = queryMaxResponseSizeTCP
            /\ xWire # <<>> =>
                   /\ xWire[1].Padding =
                          HasFlag(clone.flags, queryFlagBlockLengthPadding)
                   /\ xWire[1].Do = HasFlag(clone.flags, queryFlagDNSSec)
                   /\ xWire[1].Id = clone.id
                   /\ xWire[1].UDPSize = queryMaxResponseSizeTCP

\* A query without flags was written over TLS with both flags set and an id
\* that is not the caller's.
C32_Witness ==
    /\ xKind = "tls"
    /\ xpc = "done"
    /\ xQuery0.flags = 0
    /\ xQuery0.id = 7
    /\ xWire # <<>>
    /\ xWire[1].Padding
    /\ xWire[1].Do
    /\ xWire[1].Id = 9

(***************************************************************************)
(* Properties of the order of send and receive.                            *)
(***************************************************************************)
\* The positions in the history of the calls named name.
CallsOf(name) == {i \in 1..Len(xLog) : xLog[i].op = name}

\* C33: in every exchange a Read is called, and a read returns, only after
\* the one Write of the exchange was called and succeeded (for HTTPS: the
\* body is read and unpacked only after the round trip of the request
\* succeeded); when building the query fails, or when the Write fails,
\* Exchange returns that error and no Response, and no Read is ever called.
C33_SendBeforeReceive ==
    /\ (CallsOf("Read") # {} \/ xReads # <<>> \/ xpc = "reading") =>
           /\ xWrites = <<TRUE>>
           /\ Cardinality(CallsOf("Write")) = 1
           /\ \A w \in CallsOf("Write") : \A r \in CallsOf("Read") : w < r
           /\ Len(xReads) <= Cardinality(CallsOf("Read"))
    /\ (xHTTP # <<>> /\ (xHTTP[1].read \/ xHTTP[1].unpacked)) =>
           /\ xHTTP[1].ok
           /\ Len(xWire) = 1
    /\ (Len(xHeap) >= 2 /\ NewMsg(xHeap[2]).err # NilErr) =>
           /\ xpc = "done"
           /\ xRet.err = NewMsg(xHeap[2]).err
           /\ ~xRet.val.ok
           /\ xWire = <<>>
           /\ xWrites = <<>>
           /\ CallsOf("Write") = {}
           /\ CallsOf("Read") = {}
           /\ xReads = <<>>
           /\ xHTTP = <<>>
    /\ (xWrites # <<>> /\ ~xWrites[1]) =>
           /\ xpc = "done"
           /\ xRet.err = ErrIO
           /\ xRet.val = NilResponse
           /\ CallsOf("Read") = {}
           /\ xReads = <<>>

\* The Write of a UDP exchange failed and Exchange returned its error
\* without reading.
C33_Witness ==
    /\ xKind \in {"udp", "dnsoverudp"}
    /\ xpc = "done"
    /\ xWrites = <<FALSE>>
    /\ CallsOf("Write") # {}
    /\ CallsOf("Read") = {}
    /\ xRet.err = ErrIO

(***************************************************************************)
(* Properties of the resolver's bounding context.                          *)
(***************************************************************************)
\* C34: every Exchange lookup starts receives a context that is not done
\* and whose deadline is set, is no later than the start of the lookup
\* plus the resolver timeout and no later than the caller's deadline; so
\* once the bounding context is done (canceled by the caller, or its
\* deadline expired) lookup starts no further Exchange.
C34_LookupBounded ==
    \A g \in Tasks :
        LET t == task[g]
        IN  /\ Len(t.ctxs) = Len(t.calls)
            /\ \A k \in 1..Len(t.ctxs) :
                   /\ t.ctxs[k].err = "nil"
                   /\ t.ctxs[k].deadline # NoDeadline
                   /\ t.ctxs[k].deadline <= lookupStart + timeout
                   /\ ctxDeadline # NoDeadline =>
                          t.ctxs[k].deadline <= ctxDeadline

\* With two transports, the bounding context (whose deadline is the
\* caller's, earlier than the timeout) expired during the first Exchange,
\* which failed: lookup returned without trying the second transport.
C34_Witness ==
    /\ op = "LookupA"
    /\ pc = "done"
    /\ nTransports = 2
    /\ ctxDeadline = 105
    /\ task["A"].ctx = "DeadlineExceeded"
    /\ task["A"].calls = <<1>>
    /\ task["A"].ctxs = <<[deadline |-> 105, err |-> "nil"]>>
    /\ ret.err # NilErr

\* C35: for every number of transports, every state of the caller's
\* context and every timeout, lookup returns: its final assertion never
\* fails, and the Lookup method that called it returns either a value and
\* no error or no value and an error.
C35_LookupReturnsNormally ==
    \A g \in Tasks :
        /\ task[g].pc # "panicked"
        /\ task[g].pc = "returned" =>
               (task[g].err = NilErr) # (task[g].val = <<>>)

(***************************************************************************)
(* Properties of LookupHost's goroutines.                                  *)
(***************************************************************************)
\* The sub-lookups that returned to their goroutine.
ReturnedTasks == {g \in {"A", "AAAA"} : task[g].pc = "returned"}

\* C36 (state part): while LookupHost runs, each goroutine sends exactly
\* one result, when its sub-lookup returned, on its own channel, which then
\* holds one value: no send finds its channel full; the WaitGroup counts
\* the goroutines still running; and once LookupHost has returned both
\* sub-lookups have returned, both channels were read and are empty, and no
\* goroutine is left.
C36_HostJoinState ==
    op = "LookupHost" =>
        /\ Len(ach) <= 1
        /\ Len(aaaach) <= 1
        /\ pc = "running" =>
               /\ wg = 2 - Cardinality(ReturnedTasks)
               /\ Len(ach) = (IF "A" \in ReturnedTasks THEN 1 ELSE 0)
               /\ Len(aaaach) = (IF "AAAA" \in ReturnedTasks THEN 1 ELSE 0)
               /\ ach # <<>> =>
                      ach[1] = [Value |-> task["A"].val,
                                Err |-> task["A"].err]
               /\ aaaach # <<>> =>
                      aaaach[1] = [Value |-> task["AAAA"].val,
                                   Err |-> task["AAAA"].err]
        /\ pc = "done" =>
               /\ ReturnedTasks = {"A", "AAAA"}
               /\ wg = 0
               /\ ach = <<>>
               /\ aaaach = <<>>
               /\ Len(finished) = 2

\* C36 (step part): LookupHost returns in one step that reads one value
\* from each channel, and a channel is written only by the return of its
\* own sub-lookup.
C36_HostJoinStep ==
    op = "LookupHost" =>
        /\ (pc = "running" /\ pc' = "done") =>
               /\ Len(ach) = 1 /\ ach' = <<>>
               /\ Len(aaaach) = 1 /\ aaaach' = <<>>
               /\ wg = 0
        /\ Len(ach') > Len(ach) =>
               /\ ach = <<>>
               /\ task["A"].pc # "returned"
               /\ task'["A"].pc = "returned"
               /\ aaaach' = aaaach
        /\ Len(aaaach') > Len(aaaach) =>
               /\ aaaach = <<>>
               /\ task["AAAA"].pc # "returned"
               /\ task'["AAAA"].pc = "returned"
               /\ ach' = ach

\* A step of LookupHost or of one of its goroutines (an Exchange in flight
\* returns when the transport returns).
HostStep ==
    \/ \E g \in {"A", "AAAA"} : LookupStart(g)
    \/ \E g \in {"A", "AAAA"} : \E x \in ExchangeEvents(g) :
           ExchangeReturn(g, x)
    \/ LookupHostJoin

\* C36 (no deadlock): while LookupHost runs, LookupHost or one of its
\* goroutines can take a step; in particular, once both goroutines are done
\* the join can read both channels.
C36_HostNotBlocked ==
    (op = "LookupHost" /\ pc = "running") =>
        /\ ENABLED HostStep
        /\ ReturnedTasks = {"A", "AAAA"} => ENABLED LookupHostJoin

\* C36: the state part, the step part and the absence of deadlock.
C36_LookupHostJoins ==
    /\ []C36_HostJoinState
    /\ [][C36_HostJoinStep]_vars
    /\ []C36_HostNotBlocked

\* LookupHost returned addresses after the AAAA sub-lookup finished first.
C36_Witness ==
    /\ op = "LookupHost"
    /\ pc = "done"
    /\ finished = <<"AAAA", "A">>
    /\ ret.err = NilErr
    /\ Len(ret.addrs) >= 2

(***************************************************************************)
(* Properties of the dialers' results.                                     *)
(***************************************************************************)
\* C37: when the injected resolver returned an empty list and no error,
\* Dialer.DialContext stops at its assertion, having called the underlying
\* dialer not once and without returning; and whenever DialContext returns,
\* it returns either a connection and no error or no connection and an
\* error.
C37_EmptyListIsFatal ==
    /\ (dLookupOuts # <<>>
            /\ dLookupOuts[1].err = NilErr
            /\ dLookupOuts[1].addrs = <<>>) =>
           /\ dpc = "panic"
           /\ dDials = <<>>
           /\ dOuts = <<>>
           /\ dRet = [conn |-> NilConn, err |-> NilErr]
    /\ dpc = "done" => (dRet.conn.ok <=> dRet.err = NilErr)
    /\ dpc = "panic" =>
           /\ dLookupOuts # <<>>
           /\ dLookupOuts[1].addrs = <<>>

\* The resolver was asked for a name and returned no address and no error.
C37_Witness ==
    /\ dpc = "panic"
    /\ dLookups # <<>>
    /\ dLookupOuts = <<[addrs |-> <<>>, err |-> NilErr]>>
    /\ dDials = <<>>

\* C38: whenever QUICDialConfig.DialContext returns, it returns either a
\* connection and no error or no connection and an error.
C38_QUICDialNeverNilNil ==
    dpc = "done" => (dRet.conn.ok <=> dRet.err = NilErr)

(***************************************************************************)
(* Properties of ExchangeWithConn.                                         *)
(***************************************************************************)
\* The deadlines given to the calls of SetDeadline, in order.
RECURSIVE DeadlinesSet(_)
DeadlinesSet(log) ==
    IF log = <<>> THEN <<>>
    ELSE (IF Head(log).op = "SetDeadline" THEN <<Head(log).d>> ELSE <<>>)
             \o DeadlinesSet(Tail(log))

\* C39 (state part): ExchangeWithConn never closes the connection; when it
\* has returned, on every path, the connection has no deadline, and every
\* SetDeadline with the context's deadline was followed by a SetDeadline
\* with the zero time; with a context without deadline it never calls
\* SetDeadline, the connection never has a deadline and no read fails
\* because of a deadline or of a closed connection.
C39_WithConnState ==
    /\ ~xConn.closed
    /\ CallsOf("Close") = {}
    /\ xWatch = "none"
    /\ \A k \in 1..Len(xReads) : xReads[k].err # ErrClosed
    /\ xpc = "done" =>
           /\ xConn = NoConn
           /\ LET ds == DeadlinesSet(xLog)
              IN  /\ Len(ds) % 2 = 0
                  /\ \A k \in 1..Len(ds) :
                         ds[k] = (IF k % 2 = 1 THEN xCtx.deadline
                                  ELSE NoDeadline)
    /\ xCtx.deadline # NoDeadline =>
           (xpc \in {"writing", "reading"} => xConn.deadline = xCtx.deadline)
    /\ xCtx.deadline = NoDeadline =>
           /\ CallsOf("SetDeadline") = {}
           /\ xConn.deadline = NoDeadline
           /\ \A k \in 1..Len(xReads) :
                  xReads[k].err # ErrOSDeadlineExceeded

\* C39 (step part): the cancellation of the context changes nothing of the
\* exchange: the I/O in flight stays in flight on the same connection.
C39_CancelStep ==
    (xCtx.err = "nil" /\ xCtx'.err = "Canceled") =>
        /\ xpc' = xpc
        /\ xConn' = xConn
        /\ xLog' = xLog
        /\ xReads' = xReads
        /\ xRet' = xRet

\* C39: the state part and the step part.
C39_WithConnLeavesConnUsable ==
    /\ []C39_WithConnState
    /\ [][C39_CancelStep]_vars

\* An exchange under a context with a deadline whose read timed out: the
\* deadline was set and cleared twice and the connection is left open.
C39_Witness ==
    /\ xpc = "done"
    /\ xCtx.deadline = 5
    /\ xRet.err = ErrOSDeadlineExceeded
    /\ DeadlinesSet(xLog) = <<5, NoDeadline, 5, NoDeadline>>
    /\ xConn = NoConn

(***************************************************************************)
(* Properties of the order of NewResponse's checks.                        *)
(***************************************************************************)
\* C40: NewResponse returns the error of the validation of the response
\* against the query when there is one; otherwise the error the result code
\* maps to when there is one; otherwise the outcome of the extraction of
\* the valid answers.  So a response with a mismatched id yields
\* ErrInvalidResponse also when its result code is the name error, and a
\* valid response with a result code other than success yields the error of
\* that code, not ErrNoData, also when its answer section is empty.
C40_CheckOrder ==
    (rpc = "done" /\ rOut.fn = "new") =>
        LET e1 == responseValidateQueryResp(rQuery, rResp)
            e2 == responseRcodeToError(rResp)
        IN  /\ e1 # NilErr => (rOut.err = e1 /\ ~rOut.resp.ok)
            /\ (e1 = NilErr /\ e2 # NilErr) =>
                   (rOut.err = e2 /\ ~rOut.resp.ok)
            /\ (e1 = NilErr /\ e2 = NilErr) =>
                   LET va == responseGetValidAnswers(rQuery.Question[1],
                                                     rResp)
                   IN  /\ rOut.err = va.err
                       /\ rOut.resp.ok <=> va.err = NilErr
                       /\ rOut.resp.ok => rOut.resp.ValidRRs = va.rrs
            /\ rResp.Id # rQuery.Id => rOut.err = ErrInvalidResponse
            /\ (e1 = NilErr /\ rResp.Rcode # RcodeSuccess) =>
                   /\ rOut.err \in {ErrNoName,
                                    ErrServerTemporarilyMisbehaving,
                                    ErrServerMisbehaving}
                   /\ rOut.err # ErrNoData

\* A name-error response under another id than the query's is refused as
\* invalid.
C40_Witness ==
    /\ rpc = "done"
    /\ rOut.fn = "new"
    /\ Len(rQuery.Question) = 1
    /\ rResp.Response
    /\ rResp.Id # rQuery.Id
    /\ rResp.Rcode = RcodeNameError
    /\ rResp.Answer = <<>>
    /\ rOut.err = ErrInvalidResponse
    /\ ~rOut.resp.ok

=============================================================================
